---- MODULE Spec2Model ----
\* A model of CSSJanus (src/src/cssjanus.js): exports.transform, the orientation
\* solver, the protective tokenizers and the rewrite passes.
\*
\* The regular expressions of the source are written as data, node by node as
\* the source concatenates them, and matched by one backtracking matcher that
\* tries the alternatives of a pattern in the order JavaScript tries them.
\* Strings are TLA+ strings and positions are 1-based.  An absent (undefined)
\* capture group or option is the empty string, which JavaScript treats alike
\* in every test the modelled code makes (!x, x || y).
EXTENDS Integers, Sequences, FiniteSets, TLC

VARIABLES suite, pc, given, input, arg, norm, desc, css, noFlipSingleTokenizer,
          noFlipClassTokenizer, commentTokenizer, calcTokenizer, result, calls, memo

vars == <<suite, pc, given, input, arg, norm, desc, css, noFlipSingleTokenizer,
          noFlipClassTokenizer, commentTokenizer, calcTokenizer, result, calls, memo>>

-----------------------------------------------------------------------------
\* Characters and strings

\* U+0060, the delimiter of the placeholders.  A TLA+ string cannot hold that
\* character, so the model writes it as "&", which every pattern of the source
\* classifies exactly as it classifies U+0060, and no input uses "&" otherwise.
BT == "&"

Chars(str) == {SubSeq(str, k, k) : k \in 1..Len(str)}

LowerAlphabet == "abcdefghijklmnopqrstuvwxyz"

UpperAlphabet == "ABCDEFGHIJKLMNOPQRSTUVWXYZ"

Digit == Chars("0123456789")

Letter == Chars(LowerAlphabet) \cup Chars(UpperAlphabet)

\* \s
Space == {" ", "\t", "\n", "\r", "\f"}

\* The characters U+0020 to U+007E.
Ascii == Digit \cup Letter \cup Chars(" !\"#$%&'()*+,-./:;<=>?@[\\]^_{|}~")

Ch(s, i) == IF i >= 1 /\ i <= Len(s) THEN SubSeq(s, i, i) ELSE ""

Sub(s, i, j) ==
  IF i < 1 \/ i > j \/ i > Len(s) THEN "" ELSE SubSeq(s, i, IF j > Len(s) THEN Len(s) ELSE j)

From(s, i) == Sub(s, i, Len(s))

\* String.prototype.toLowerCase and toUpperCase, one character.
lowerCase == [c \in Chars(UpperAlphabet) |->
                Ch(LowerAlphabet, CHOOSE k \in 1..26 : Ch(UpperAlphabet, k) = c)]

upperCase == [c \in Chars(LowerAlphabet) |->
                Ch(UpperAlphabet, CHOOSE k \in 1..26 : Ch(LowerAlphabet, k) = c)]

LowerCh(c) == IF c \in DOMAIN lowerCase THEN lowerCase[c] ELSE c

UpperCh(c) == IF c \in DOMAIN upperCase THEN upperCase[c] ELSE c

RECURSIVE toLowerCase(_)
toLowerCase(s) == IF s = "" THEN "" ELSE LowerCh(Ch(s, 1)) \o toLowerCase(From(s, 2))

\* The least element of a non-empty set of numbers.
Min(S) == CHOOSE x \in S : \A y \in S : x <= y

\* String.prototype.indexOf from position i: the first position at or after i
\* where the text t stands, 0 if there is none.
indexOf(s, t, i) ==
  LET found == {k \in i..(Len(s) - Len(t) + 1) : SubSeq(s, k, k + Len(t) - 1) = t}
  IN IF found = {} THEN 0 ELSE Min(found)

\* The number a run of decimal digits denotes.
RECURSIVE ToNumber(_, _)
ToNumber(digits, acc) ==
  IF digits = "" THEN acc
  ELSE ToNumber(From(digits, 2),
                10 * acc + (CHOOSE n \in 0..9 : ToString(n) = Ch(digits, 1)))

\* Bitwise operators of JavaScript on small non-negative operands.
RECURSIVE BitXor(_, _)
BitXor(a, b) ==
  IF a = 0 /\ b = 0 THEN 0
  ELSE (((a % 2) + (b % 2)) % 2) + 2 * BitXor(a \div 2, b \div 2)

RECURSIVE BitAnd(_, _)
BitAnd(a, b) ==
  IF a = 0 \/ b = 0 THEN 0
  ELSE ((a % 2) * (b % 2)) + 2 * BitAnd(a \div 2, b \div 2)

\* The concatenation of a sequence of lists of match states, in order; a state
\* listed earlier is not listed again, backtracking into it would only repeat
\* the attempts already made from it.
RECURSIVE ConcatRows(_)
ConcatRows(rows) ==
  IF rows = <<>> THEN <<>>
  ELSE Head(rows) \o SelectSeq(ConcatRows(Tail(rows)),
                               LAMBDA x : \A j \in DOMAIN Head(rows) : Head(rows)[j] # x)

Concat(seqs) == ConcatRows(seqs \o <<>>)

\* f with f[k] = v, the assignment f[ k ] = v on an object or an array.
Put(f, k, v) == [x \in (DOMAIN f) \cup {k} |-> IF x = k THEN v ELSE f[x]]

-----------------------------------------------------------------------------
\* Regular expressions (new RegExp( pattern, 'gi' ) and String.prototype.replace)

\* The nodes of a pattern.  lit: a text, compared without regard to case as the
\* i flag asks; exact: a text of a pattern without the i flag; cls and ncls:
\* [...] and [^...]; cat: a sequence; alt: a|b; rep and lazy: x{lo,hi} and
\* x{lo,hi}?, hi = -1 for no limit; grp: capturing group number lo; look:
\* (?=x) with lo = 1 and (?!x) with lo = 0; bol: ^.
Node(t, v, lo, hi) == [t |-> t, v |-> v, lo |-> lo, hi |-> hi]

Lt(text) == Node("lit", text, 0, 0)

Lx(text) == Node("exact", text, 0, 0)

Cls(set) == Node("cls", set, 0, 0)

NCls(set) == Node("ncls", set, 0, 0)

Cat(items) == Node("cat", items, 0, 0)

Alt(items) == Node("alt", items, 0, 0)

Rep(r, lo, hi) == Node("rep", r, lo, hi)

Star(r) == Node("rep", r, 0, -1)

Plus(r) == Node("rep", r, 1, -1)

Opt(r) == Node("rep", r, 0, 1)

LazyStar(r) == Node("lazy", r, 0, -1)

Grp(n, r) == Node("grp", r, n, 0)

Look(r) == Node("look", r, 1, 0)

NLook(r) == Node("look", r, 0, 0)

Bol == Node("bol", "", 0, 0)

\* The capture groups before a match: all undefined.
NoCaps == [k \in 1..20 |-> ""]

\* Whether the literal lit stands at position i of s; ci: without regard to case.
LitAt(s, i, lit, ci) ==
  /\ i + Len(lit) - 1 <= Len(s)
  /\ \A k \in 1..Len(lit) :
       IF ci THEN LowerCh(Ch(s, i + k - 1)) = LowerCh(Ch(lit, k))
       ELSE Ch(s, i + k - 1) = Ch(lit, k)

\* Whether the character c is in the class set under the i flag.
InClass(c, set) == c # "" /\ (c \in set \/ LowerCh(c) \in set \/ UpperCh(c) \in set)

\* The matcher.  A state st is [e: the position reached, c: the captures].
\* M( re, s, st ) is the sequence of the states in which a match of re that
\* starts in st can end, in the order a backtracking matcher comes to them:
\* the first is the match, the others are what it falls back to when what
\* follows the pattern fails.  An iteration of a repetition that consumes
\* nothing ends the repetition.
RECURSIVE M(_, _, _)
RECURSIVE MCat(_, _, _, _)
RECURSIVE MRep(_, _, _, _)
RECURSIVE MRun(_, _, _, _)
M(re, s, st) ==
  CASE re.t \in {"lit", "exact"} ->
         IF LitAt(s, st.e, re.v, re.t = "lit")
         THEN <<[e |-> st.e + Len(re.v), c |-> st.c]>> ELSE <<>>
    [] re.t = "cls" ->
         IF InClass(Ch(s, st.e), re.v) THEN <<[e |-> st.e + 1, c |-> st.c]>> ELSE <<>>
    [] re.t = "ncls" ->
         IF Ch(s, st.e) # "" /\ ~InClass(Ch(s, st.e), re.v)
         THEN <<[e |-> st.e + 1, c |-> st.c]>> ELSE <<>>
    [] re.t = "cat" -> MCat(re.v, 1, s, <<st>>)
    [] re.t = "alt" -> Concat([k \in DOMAIN re.v |-> M(re.v[k], s, st)])
    [] re.t \in {"rep", "lazy"} ->
         IF re.hi < 0 /\ re.lo <= 1 THEN MRun(re, s, st, TRUE) ELSE MRep(re, s, st, 0)
    [] re.t = "grp" ->
         LET r == M(re.v, s, st)
         IN [j \in DOMAIN r |->
               [e |-> r[j].e, c |-> [r[j].c EXCEPT ![re.lo] = Sub(s, st.e, r[j].e - 1)]]]
    [] re.t = "look" ->
         LET r == M(re.v, s, st)
         IN IF re.lo = 1
            THEN (IF r # <<>> THEN <<[e |-> st.e, c |-> Head(r).c]>> ELSE <<>>)
            ELSE (IF r = <<>> THEN <<st>> ELSE <<>>)
    [] re.t = "bol" -> IF st.e = 1 THEN <<st>> ELSE <<>>

MCat(items, k, s, states) ==
  IF k > Len(items) \/ states = <<>> THEN states
  ELSE MCat(items, k + 1, s, Concat([j \in DOMAIN states |-> M(items[k], s, states[j])]))

\* A repetition with a limit, iteration by iteration.
MRep(re, s, st, count) ==
  LET one == IF re.hi < 0 \/ count < re.hi THEN M(re.v, s, st) ELSE <<>>
      more == Concat([j \in DOMAIN one |->
                        IF one[j].e > st.e THEN MRep(re, s, one[j], count + 1) ELSE <<>>])
      stop == IF count >= re.lo THEN <<st>> ELSE <<>>
  IN IF re.t = "rep" THEN more \o stop ELSE stop \o more

\* Whether an iteration of the repetition re at position q does nothing but
\* step over one character.
PlainAt(re, s, st, q) ==
  LET one == M(re.v, s, [e |-> q, c |-> st.c])
  IN one # <<>> /\ \A j \in DOMAIN one : one[j] = [e |-> q + 1, c |-> st.c]

\* x* and x+, and the lazy x*?.  The iterations step over the characters up to
\* r, the first position where an iteration does anything else: fails, or
\* takes an alternative that is longer than a character.  A greedy repetition
\* first goes on from r with what the iteration gives there, then stops at r,
\* and then at each position before it, the nearest first; a lazy one stops at
\* each position up to r, the nearest first, and only then goes on from r.
\* first: st is where the repetition starts, where x+ cannot stop.
MRun(re, s, st, first) ==
  LET r == CHOOSE q \in st.e..(Len(s) + 1) :
             ~PlainAt(re, s, st, q) /\ \A k \in st.e..(q - 1) : PlainAt(re, s, st, k)
      one == M(re.v, s, [e |-> r, c |-> st.c])
      more == Concat([j \in DOMAIN one |->
                        IF one[j].e > r THEN MRun(re, s, one[j], FALSE) ELSE <<>>])
      skip == IF first /\ re.lo = 1 THEN 1 ELSE 0
      stops == r - st.e + 1 - skip
  IN IF re.t = "rep"
     THEN more \o [k \in 1..stops |-> [e |-> r + 1 - k, c |-> st.c]]
     ELSE [k \in 1..stops |-> [e |-> st.e + skip + k - 1, c |-> st.c]] \o more

\* The matches a pattern with the g flag has in s, left to right: each is
\* [at: where it starts, e: the position after it, c: its captures, match:
\* its text].  all[ i ] is what the pattern matches at position i; after a
\* match the search goes on behind it, after an empty one a character later.
RECURSIVE Pick(_, _, _)
Pick(all, s, i) ==
  LET hits == {j \in i..Len(s) : all[j] # <<>>}
  IN IF hits = {} THEN <<>>
     ELSE LET at == Min(hits)
              r == all[at][1]
          IN <<[at |-> at, e |-> r.e, c |-> r.c, match |-> Sub(s, at, r.e - 1)]>> \o
             Pick(all, s, IF r.e > at THEN r.e ELSE at + 1)

Matches(re, s) ==
  Pick([i \in 1..Len(s) |-> M(re, s, [e |-> i, c |-> NoCaps])] \o <<>>, s, 1)

\* s with its matches ms replaced by the texts outs, the rest kept.
RECURSIVE Splice(_, _, _, _, _)
Splice(s, ms, outs, k, pos) ==
  IF k > Len(ms) THEN From(s, pos)
  ELSE Sub(s, pos, ms[k].at - 1) \o outs[k] \o Splice(s, ms, outs, k + 1, ms[k].e)
-----------------------------------------------------------------------------
\* Tables and patterns of CSSJanus()

sides == [i \in 0..3 |-> <<"top", "right", "bottom", "left">>[i + 1]]

\* The compass letters a quarter turn off their sides.
cursorsTurned == [i \in 0..3 |-> <<"e", "s", "w", "n">>[i + 1]]

cursors == [i \in 0..3 |-> <<"n", "e", "s", "w">>[i + 1]]

wmDirs == [i \in 0..3 |-> <<"tb", "rl", "bt", "lr">>[i + 1]]

directions == [dir \in {"tb", "rl", "bt", "lr"} |->
                 CASE dir = "tb" -> 0 [] dir = "rl" -> 1 [] dir = "bt" -> 2 [] dir = "lr" -> 3]

\* The tokens, each as the text before and the text after its \d+.
noFlipSingleToken == <<BT \o "NOFLIP_SINGLE", BT>>

noFlipClassToken == <<BT \o "NOFLIP_CLASS", BT>>

commentToken == <<BT \o "COMMENT", BT>>

calcToken == <<BT \o "CALC", BT>>

\* A token as it stands inside a pattern.
Token(tok) == Cat(<<Lt(tok[1]), Plus(Cls(Digit)), Lt(tok[2])>>)

HexDigit == Digit \cup Chars("abcdef")

nonAsciiPattern == NCls(Ascii)

unicodePattern ==
  Cat(<<Lt("\\"), Rep(Cls(HexDigit), 1, 6), Opt(Alt(<<Lt("\r\n"), Cls(Space)>>))>>)

numPattern ==
  Cat(<<Alt(<<Cat(<<Star(Cls(Digit)), Lt("."), Plus(Cls(Digit))>>), Plus(Cls(Digit))>>),
        Opt(Cat(<<Cls({"e", "E"}), Opt(Cls({"-", "+"})), Cls(Digit \cup {"+"})>>))>>)

unitPattern ==
  Cat(<<Alt(<<Lt("em"), Lt("ex"), Lt("px"), Lt("cm"), Lt("mm"), Lt("in"), Lt("pt"), Lt("pc"),
              Lt("q"), Lt("rem"), Lt("ch"), Lt("vh"), Lt("vw"), Lt("vmax"), Lt("vmin"),
              Lt("deg"), Lt("rad"), Lt("grad"), Lt("ms"), Lt("s"), Lt("hz"), Lt("khz"),
              Lt("%")>>),
        NLook(Cls(Chars(LowerAlphabet)))>>)

\* The pattern the source names _ : (?:\s|commentToken)*
ows == Star(Alt(<<Cls(Space), Token(commentToken)>>))

ws == Plus(Alt(<<Cls(Space), Token(commentToken)>>))

\* sws, suffixPattern and the signed patterns are capture groups; n is the number
\* the group has in the expression that holds it.
sws(n) == Grp(n, ws)

colon == Cat(<<ows, Lt(":"), ows>>)

slash == Cat(<<ows, Lt("/"), ows>>)

comma == Cat(<<ows, Lt(","), ows>>)

directionPattern == Cat(<<Lt("direction"), colon>>)

\* [!#$%&*-~]
urlSpecialCharsPattern == Cls(Chars("!#$%&") \cup (Ascii \ Chars(" !\"#$%&'()")))

validAfterUriCharsPattern == Cat(<<Opt(Cls({"'", "\""})), ows>>)

nonLetterPattern == Grp(1, Alt(<<Bol, NCls(Letter)>>))

noFlipPattern ==
  Cat(<<Lt("/*"), Opt(Lt("!")), Star(Cls(Space)), Lt("@noflip"), Star(Cls(Space)), Lt("*/")>>)

\* \/\*[^*]*\*+([^\/*][^*]*\*+)*\/ ; nothing reads its group.
commentPattern ==
  Cat(<<Lt("/*"), Star(NCls({"*"})), Plus(Lt("*")),
        Star(Cat(<<NCls({"/", "*"}), Star(NCls({"*"})), Plus(Lt("*"))>>)), Lt("/")>>)

escapePattern == Alt(<<unicodePattern, Cat(<<Lt("\\"), NCls({"\r", "\n", "\f"} \cup HexDigit)>>)>>)

nmstartPattern == Alt(<<Cls({"_"} \cup Chars(LowerAlphabet)), nonAsciiPattern, escapePattern>>)

nmcharPattern ==
  Alt(<<Cls({"_", "-"} \cup Chars(LowerAlphabet) \cup Digit), nonAsciiPattern, escapePattern>>)

identPattern == Cat(<<Opt(Lt("-")), nmstartPattern, Star(nmcharPattern)>>)

\* In the text of the source the last alternative inside the quotes is a
\* backslash before a line feed, which as a pattern is the line feed.
stringPattern ==
  Alt(<<Cat(<<Lt("\""), Star(Alt(<<NCls({"\\", "\"", "\n"}), escapePattern, Lt("\n")>>)), Lt("\"")>>),
        Cat(<<Lt("'"), Star(Alt(<<NCls({"\\", "'", "\n"}), escapePattern, Lt("\n")>>)), Lt("'")>>)>>)

quantPattern ==
  Alt(<<Cat(<<Opt(Cls({"-", "+"})), numPattern,
              Opt(Alt(<<Cat(<<Star(Cls(Space)), unitPattern>>), identPattern>>))>>),
        Cat(<<Opt(Lt("-")), Token(calcToken)>>)>>)

posQuantPattern ==
  Alt(<<Cat(<<Opt(Lt("+")), numPattern,
              Opt(Alt(<<Cat(<<Star(Cls(Space)), unitPattern>>), identPattern>>))>>),
        Token(calcToken)>>)

signedQuantPattern(n) == Grp(n, Alt(<<quantPattern, Lt("inherit"), Lt("auto")>>))

signedLineWidthPattern(n) ==
  Grp(n, Alt(<<quantPattern, Lt("inherit"), Lt("auto"), Lt("thin"), Lt("medium"), Lt("thick")>>))

fourNotationQuantPropsPattern ==
  Grp(1, Cat(<<Alt(<<Lt("margin"), Lt("padding"), Lt("border-image-width"),
                     Lt("border-image-outset")>>), colon>>))

fourNotationLineWidthPropsPattern == Grp(1, Cat(<<Lt("border-width"), colon>>))

fourNotationColorPropsPattern ==
  Grp(1, Cat(<<Alt(<<Lt("border-color"), Lt("border-style")>>), colon>>))

colorPattern ==
  Alt(<<Cat(<<Alt(<<Cat(<<Lt("rgb"), Opt(Lt("a"))>>), Cat(<<Lt("hsl"), Opt(Lt("a"))>>)>>), Lt("("),
              Plus(Alt(<<quantPattern, comma, ws>>)), Lt(")")>>),
        Cat(<<nmstartPattern, Star(nmcharPattern)>>),
        Cat(<<Lt("#"), Plus(nmcharPattern)>>)>>)

signedColorPattern(n) == Grp(n, colorPattern)

urlCharsPattern == Star(Alt(<<urlSpecialCharsPattern, nonAsciiPattern, escapePattern>>))

urlPattern == Cat(<<Lt("url("), ows, Alt(<<stringPattern, urlCharsPattern>>), ows, Lt(")")>>)

sidesPattern == Alt(<<Lt("top"), Lt("right"), Lt("bottom"), Lt("left")>>)

edgesPattern == Alt(<<sidesPattern, Lt("center")>>)

lookAheadNotLetterPattern == NLook(Cls(Letter))

\* Nothing reads the group of this lookahead.
lookAheadNotOpenBracePattern ==
  NLook(Cat(<<LazyStar(Alt(<<nmcharPattern, Cat(<<Opt(Lt("\r")), Lt("\n")>>), Cls(Space),
                             Lt("#"), Lt(":"), Lt("."), Lt(","), Lt("+"), Lt(">"), Lt("~"),
                             Lt("("), Lt(")"), Lt("["), Lt("]"), Lt("*"), Lt("="), Lt("~="),
                             Lt("^="), Lt("$="), Lt("|"), stringPattern, Token(commentToken)>>)),
              Lt("{")>>))

lookAheadNotClosingParenPattern ==
  NLook(Cat(<<Opt(urlCharsPattern), validAfterUriCharsPattern, Lt(")")>>))

lookAheadForClosingParenPattern ==
  Look(Cat(<<Opt(urlCharsPattern), validAfterUriCharsPattern, Lt(")")>>))

suffixPattern(n) == Grp(n, Cat(<<ows, Opt(Cat(<<Lt("!important"), ows>>)), Cls({";", "}"})>>))

commentRegExp == commentPattern

charsWithinSelectorPattern == LazyStar(Alt(<<urlPattern, stringPattern, NCls({"}"})>>))

noFlipSingleRegExp ==
  Cat(<<noFlipPattern, lookAheadNotOpenBracePattern,
        Plus(Alt(<<urlPattern, NCls({";", "}"})>>)), Opt(Lt(";"))>>)

noFlipClassRegExp == Cat(<<noFlipPattern, charsWithinSelectorPattern, Lt("}")>>)

directionRegExp ==
  Cat(<<Grp(1, directionPattern), Grp(2, Alt(<<Lt("ltr"), Lt("rtl")>>)), lookAheadNotLetterPattern>>)

\* The pattern of the sides without the properties that are kept from rotating.
sidesRegExpAllRotate ==
  Cat(<<nonLetterPattern, Grp(4, sidesPattern),
        lookAheadNotLetterPattern, lookAheadNotClosingParenPattern, lookAheadNotOpenBracePattern>>)

sidesRegExp ==
  Cat(<<nonLetterPattern,
        Opt(Grp(2, Alt(<<
          Cat(<<Alt(<<Lt("float"), Lt("clear"), Cat(<<Lt("text-align"), Opt(Lt("-last"))>>)>>),
                colon>>),
          Grp(3, Alt(<<Cat(<<Lt("vertical-align"), colon, Opt(Lt("text-"))>>),
                       Cat(<<Lt("text-orientation"), colon, Lt("sideways-")>>),
                       Cat(<<Lt("caption-side"), colon>>)>>))>>))),
        Grp(4, sidesPattern),
        lookAheadNotLetterPattern, lookAheadNotClosingParenPattern, lookAheadNotOpenBracePattern>>)

edgeInUrlRegExp ==
  Cat(<<nonLetterPattern, Grp(2, sidesPattern), lookAheadNotLetterPattern,
        lookAheadForClosingParenPattern>>)

dirInUrlRegExp ==
  Cat(<<nonLetterPattern,
        Grp(2, Alt(<<Lt("ltr"), Lt("rtl"),
                     Cat(<<Alt(<<Lt("tb"), Lt("bt"), Lt("vertical")>>), Lt("-"),
                           Alt(<<Lt("lr"), Lt("rl"), Lt("inline")>>)>>),
                     Cat(<<Alt(<<Lt("lr"), Lt("rl"), Lt("horizontal")>>), Lt("-"),
                           Alt(<<Lt("tb"), Lt("bt"), Lt("inline")>>)>>)>>)),
        lookAheadNotLetterPattern, lookAheadForClosingParenPattern>>)

cursorRegExp ==
  Cat(<<Grp(1, Cat(<<Lt("cursor"), colon>>)),
        Alt(<<Cat(<<Opt(Grp(2, Cls({"n", "s"}))), Opt(Grp(3, Cls({"e", "w"}))), Lt("-resize")>>),
              Grp(4, Alt(<<Cat(<<Alt(<<Lt("row"), Lt("col"), Lt("ns"), Lt("ew"), Lt("nesw"),
                                       Lt("nwse")>>), Lt("-resize")>>),
                           Lt("text"), Lt("vertical-text")>>))>>)>>)

\* border-radius: <length or percentage>{1,4} [optional: / <length or percentage>{1,4} ]
borderRadiusRegExp ==
  Cat(<<Grp(1, Cat(<<Lt("border-radius"), colon>>)), signedQuantPattern(2),
        Opt(Cat(<<Cat(<<sws(3), signedQuantPattern(4)>>),
                  Opt(Cat(<<sws(5), signedQuantPattern(6)>>)),
                  Opt(Cat(<<sws(7), signedQuantPattern(8)>>))>>)),
        Opt(Cat(<<Cat(<<Grp(9, slash), signedQuantPattern(10)>>),
                  Opt(Cat(<<sws(11), signedQuantPattern(12)>>)),
                  Opt(Cat(<<sws(13), signedQuantPattern(14)>>)),
                  Opt(Cat(<<sws(15), signedQuantPattern(16)>>))>>)),
        suffixPattern(17)>>)

fourNotationQuantRegExp ==
  Cat(<<fourNotationQuantPropsPattern, signedQuantPattern(2), sws(3), signedQuantPattern(4),
        Opt(Cat(<<sws(5), signedQuantPattern(6), Opt(Cat(<<sws(7), signedQuantPattern(8)>>))>>)),
        suffixPattern(9)>>)

fourNotationLineWidthRegExp ==
  Cat(<<fourNotationLineWidthPropsPattern, signedLineWidthPattern(2), sws(3),
        signedLineWidthPattern(4),
        Opt(Cat(<<sws(5), signedLineWidthPattern(6),
                  Opt(Cat(<<sws(7), signedLineWidthPattern(8)>>))>>)),
        suffixPattern(9)>>)

fourNotationColorRegExp ==
  Cat(<<fourNotationColorPropsPattern, signedColorPattern(2), sws(3), signedColorPattern(4),
        Opt(Cat(<<sws(5), signedColorPattern(6), Opt(Cat(<<sws(7), signedColorPattern(8)>>))>>)),
        suffixPattern(9)>>)

quantPlainUnitRegex == Cat(<<Opt(Cls({"-", "+"})), numPattern, unitPattern>>)

bgRegExp ==
  Cat(<<Grp(1, Cat(<<Lt("background"), Opt(Lt("-position"))>>)), Grp(2, colon),
        Grp(3, Plus(Alt(<<urlPattern, NCls({";", "{", "}"})>>)))>>)

bgXYRegExp ==
  Cat(<<Grp(1, Cat(<<Lt("background-position-"), Cls({"x", "y"})>>)),
        Opt(Cat(<<Grp(2, colon), Grp(3, Plus(NCls({";", "{", "}"}))), suffixPattern(4)>>))>>)

positionValuesRegExp ==
  Cat(<<Grp(1, Alt(<<Bol, Cls(Space), Lt(",")>>)),
        Grp(2, Alt(<<Grp(3, Cat(<<edgesPattern,
                                  Opt(Cat(<<ws, quantPattern, Look(Cat(<<ws, edgesPattern>>))>>))>>)),
                     quantPattern>>)),
        Opt(Cat(<<sws(4),
                  Grp(5, Alt(<<Grp(6, Cat(<<edgesPattern, Opt(Cat(<<ws, quantPattern>>))>>)),
                               quantPattern>>))>>)),
        Opt(Cat(<<Grp(7, slash), Grp(8, posQuantPattern), sws(9), Grp(10, posQuantPattern)>>)),
        NLook(Cat(<<Star(NCls({"(", ")"})), Lt(")")>>)),
        lookAheadNotClosingParenPattern>>)

bgPositionSingleValueRegExp ==
  Cat(<<Grp(1, Alt(<<Bol, Cls(Space), Lt(",")>>)),
        Grp(2, Cat(<<Opt(Cls({"-", "+"})), numPattern, Lt("%")>>)),
        lookAheadNotClosingParenPattern>>)

shadowItemPattern == Alt(<<Lt("inset"), quantPattern, colorPattern>>)

shadowRegExp ==
  Cat(<<Grp(1, Alt(<<Cat(<<Alt(<<Lt("box"), Lt("text")>>), Lt("-shadow"), colon>>),
                     Cat(<<Lt("drop-shadow("), ows>>)>>)),
        Grp(2, Cat(<<shadowItemPattern, Star(Cat(<<Alt(<<ws, comma>>), shadowItemPattern>>))>>))>>)

shadowValueRegExp ==
  Cat(<<Opt(Grp(1, Cat(<<colorPattern, ws, Opt(Cat(<<Lt("inset"), ws>>))>>))),
        signedQuantPattern(2), sws(3), signedQuantPattern(4),
        Grp(5, Star(NCls({",", ";", "}"})))>>)

\* anglePattern; n is the number of its first group.
anglePattern(n) ==
  Cat(<<Grp(n, Cat(<<Opt(Cls({"-", "+"})), numPattern>>)),
        Grp(n + 1, Opt(Alt(<<Lt("deg"), Cat(<<Opt(Lt("g")), Lt("rad")>>), Lt("turn")>>)))>>)

colorStopPattern == Cat(<<colorPattern, Opt(Cat(<<ws, quantPattern>>))>>)

colorStopsPattern == Cat(<<colorStopPattern, Plus(Cat(<<comma, colorStopPattern>>))>>)

linearGradientRegExp ==
  Cat(<<Grp(1, Cat(<<Opt(Lt("repeating-")), Lt("linear-gradient("), ows>>)),
        Opt(Cat(<<anglePattern(2), Grp(4, comma)>>)),
        Grp(5, Cat(<<colorStopsPattern, ows, Lt(")")>>))>>)

\* The full circle in each unit, in hundredths.  Math.PI * 2 for rad is no
\* decimal number and is left out; the angles given are in the other units.
angleMaxes == [unit \in {"deg", "grad", "turn"} |->
                CASE unit = "deg" -> 36000 [] unit = "grad" -> 40000 [] unit = "turn" -> 100]

\* '(transform' + colon + ')([^;{}]+)' + suffixPattern
transformRegExp ==
  Cat(<<Grp(1, Cat(<<Lt("transform"), colon>>)), Grp(2, Plus(NCls({";", "{", "}"}))),
        suffixPattern(3)>>)

\* '((?:rotate|translate|skew|scale|matrix)(?:x|y|z|3d)?)(\\(' + _ + ')([^\\)]*?)(' + _ + '\\))'
transformFunctionRegExp ==
  Cat(<<Grp(1, Cat(<<Alt(<<Lt("rotate"), Lt("translate"), Lt("skew"), Lt("scale"), Lt("matrix")>>),
                     Opt(Alt(<<Lt("x"), Lt("y"), Lt("z"), Lt("3d")>>))>>)),
        Grp(2, Cat(<<Lt("("), ows>>)),
        Grp(3, LazyStar(NCls({")"}))),
        Grp(4, Cat(<<ows, Lt(")")>>))>>)
-----------------------------------------------------------------------------
\* The orientation solver (transform, the descriptor of one call)

orientationArray(dir) ==
  LET dash == indexOf(dir, "-", 1)
  IN [k \in 0..1 |-> IF k = 0 THEN directions[Sub(dir, 1, dash - 1)]
                     ELSE directions[From(dir, dash + 1)]]

\* A dirFlipped that looks at the source alone.
dirFlippedFromSource(source, target) == source[0] = directions["lr"]

dirFlippedOf(source, target) == (BitXor(source[0], target[0]) % 3) # 0

\* A quarterTurned that looks at the target alone.
quarterTurnedFromTarget(source, target) == BitAnd(target[0], 1) # 0

quarterTurnedOf(source, target) == BitAnd(source[0], 1) # BitAnd(target[0], 1)

cornersFlippedOf(source, target) ==
  ((source[0] + source[1]) % 3) # ((target[0] + target[1]) % 3)

\* ( a - b ) & 3 is (a - b) modulo 4 on two's complement integers.
reflectedOf(source, target) ==
  ((source[0] - source[1]) % 4) # ((target[0] - target[1]) % 4)

\* A loop that leaves i & 2 out of the value, so that it writes two values
\* twice.
RECURSIVE MapLoopOneAxis(_, _, _, _, _)
MapLoopOneAxis(source, target, reflected, i, m) ==
  IF i >= 4 THEN m
  ELSE LET key == BitXor(target[BitAnd(i, 1)], BitAnd(i, 2))
           val == source[BitAnd(i, 1)]
       IN MapLoopOneAxis(source, target, reflected, i + 1,
                         [map |-> Put(m.map, key, val),
                          cornersMap |-> Put(m.cornersMap, key,
                                             BitAnd(val + (IF reflected THEN 1 ELSE 0), 3))])

\* The loop for ( i = 0; i < 4; i++ ) that fills map and cornersMap.
RECURSIVE MapLoop(_, _, _, _, _)
MapLoop(source, target, reflected, i, m) ==
  IF i >= 4 THEN m
  ELSE LET key == BitXor(target[BitAnd(i, 1)], BitAnd(i, 2))
           val == BitXor(source[BitAnd(i, 1)], BitAnd(i, 2))
       IN MapLoop(source, target, reflected, i + 1,
                  [map |-> Put(m.map, key, val),
                   cornersMap |-> Put(m.cornersMap, key,
                                      BitAnd(val + (IF reflected THEN 1 ELSE 0), 3))])

\* The pairs of rotateMap, in the order Object.keys gives them.
rotateMap ==
  << <<"height", "width">>,
     <<"background-position-x", "background-position-y">>,
     <<"horizontal", "vertical">>,
     <<"text", "vertical-text">>,
     <<"ns-resize", "ew-resize">>,
     <<"row-resize", "col-resize">>,
     <<"portrait", "landscape">>,
     <<"x", "y">>,
     <<"scalex", "scaley">>,
     <<"skewx", "skewy">>,
     <<"rotatex", "rotatey">>,
     <<"translatex", "translatey">> >>

RECURSIVE SideChanges(_, _, _)
SideChanges(map, i, t) ==
  IF i >= 4 THEN t
  ELSE SideChanges(map, i + 1,
         Put(Put(Put(t, sides[map[i]], sides[i]), cursors[map[i]], cursors[i]),
             wmDirs[map[i]], wmDirs[i]))

RECURSIVE RotateChanges(_, _)
RotateChanges(k, t) ==
  IF k > Len(rotateMap) THEN t
  ELSE RotateChanges(k + 1, Put(Put(t, rotateMap[k][1], rotateMap[k][2]),
                                rotateMap[k][2], rotateMap[k][1]))

\* textChanges of the swapText closure.
textChangesOf(map, quarterTurned, dirFlipped, cornersFlipped) ==
  LET t1 == SideChanges(map, 0, <<>>)
      t2 == IF quarterTurned THEN RotateChanges(1, t1) ELSE t1
      t3 == IF dirFlipped THEN Put(Put(t2, "ltr", "rtl"), "rtl", "ltr") ELSE t2
  IN IF cornersFlipped
     THEN Put(Put(t3, "nesw-resize", "nwse-resize"), "nwse-resize", "nesw-resize")
     ELSE t3

\* The descriptor transform() computes from sourceDir and targetDir.
Descriptor(sourceDir, targetDir) ==
  LET source == orientationArray(sourceDir)
      target == orientationArray(targetDir)
      dirFlipped == dirFlippedOf(source, target)
      quarterTurned == quarterTurnedOf(source, target)
      cornersFlipped == cornersFlippedOf(source, target)
      reflected == reflectedOf(source, target)
      m == MapLoop(source, target, reflected, 0, [map |-> <<>>, cornersMap |-> <<>>])
  IN [source |-> source, target |-> target,
      dirFlipped |-> dirFlipped, quarterTurned |-> quarterTurned,
      cornersFlipped |-> cornersFlipped, reflected |-> reflected,
      map |-> m.map, cornersMap |-> m.cornersMap,
      flipX |-> (m.map[3] = 1 \/ m.map[0] = 1),
      flipY |-> (m.map[2] = 0 \/ m.map[1] = 0),
      textChanges |-> textChangesOf(m.map, quarterTurned, dirFlipped, cornersFlipped)]

\* The descriptor of a call that has not computed one.
NoDescriptor == [source |-> <<>>, target |-> <<>>,
                 dirFlipped |-> FALSE, quarterTurned |-> FALSE,
                 cornersFlipped |-> FALSE, reflected |-> FALSE,
                 map |-> <<>>, cornersMap |-> <<>>, flipX |-> FALSE, flipY |-> FALSE,
                 textChanges |-> <<>>]

\* A swapText that changes right and never left.
swapTextOneWay(d, text) == IF toLowerCase(text) = "right" THEN "left" ELSE text

\* A swapText that knows no text to change.
swapTextKept(d, text) == text

\* textChanges[ lcText ] || text
swapText(d, text) ==
  IF toLowerCase(text) \in DOMAIN d.textChanges THEN d.textChanges[toLowerCase(text)]
  ELSE text

-----------------------------------------------------------------------------
\* Values

\* [0-9]*, the position after the digits at i.
RECURSIVE SkipDigits(_, _)
SkipDigits(s, i) == IF Ch(s, i) \in Digit THEN SkipDigits(s, i + 1) ELSE i

\* parseFloat( value ) === 0: the digits of the mantissa are all zeros.
RECURSIVE AllZeros(_, _, _)
AllZeros(s, i, seen) ==
  IF Ch(s, i) = "0" THEN AllZeros(s, i + 1, TRUE)
  ELSE IF Ch(s, i) = "." /\ (seen \/ Ch(s, i + 1) \in Digit) /\ ~(\E k \in 1..(i - 1) : Ch(s, k) = ".")
       THEN AllZeros(s, i + 1, seen)
  ELSE seen /\ Ch(s, i) \notin Digit

parseFloatIsZero(value) ==
  AllZeros(value, IF Ch(value, 1) \in {"-", "+"} THEN 2 ELSE 1, FALSE)

flipSign(value) ==
  IF parseFloatIsZero(value) THEN value
  ELSE IF Ch(value, 1) = "-" THEN From(value, 2)
  ELSE "-" \o (IF Ch(value, 1) = "+" THEN From(value, 2) ELSE value)

\* Offsets that never change their sign.
flipXYPositionsUnsigned(dir, X, Y) == IF dir \in {0, 2} THEN Y ELSE X

\* switch ( dir ): the offset of a shadow along the side dir of the target.
flipXYPositions(dir, X, Y) ==
  CASE dir = 0 -> flipSign(Y)
    [] dir = 1 -> X
    [] dir = 2 -> Y
    [] dir = 3 -> flipSign(X)

\* getPrecision of a text: the characters after the first point.
getPrecision(value) ==
  IF indexOf(value, ".", 1) = 0 THEN 0 ELSE Len(value) - indexOf(value, ".", 1)

\* n written with at least w digits.
RECURSIVE Digits(_, _)
Digits(n, w) == IF w <= 1 /\ n < 10 THEN ToString(n) ELSE Digits(n \div 10, w - 1) \o ToString(n % 10)

RECURSIVE Pow10(_)
Pow10(k) == IF k = 0 THEN 1 ELSE 10 * Pow10(k - 1)

\* ( 100 - parseFloat( number ) ).toFixed( precision ) + '%', by its steps:
\* with the sign and the magnitude abs of the difference in units of 10^-f,
writeDifference(precision, f, neg, abs) ==
  IF precision # 0
  THEN (IF neg THEN "-" ELSE "") \o Digits(abs \div Pow10(f), 1) \o "." \o
       (IF f > 0 THEN Digits(abs % Pow10(f), f) ELSE "") \o
       (IF precision > f THEN Digits(0, precision - f) ELSE "") \o "%"
  ELSE (IF neg THEN "-" ELSE "") \o Digits(abs, 1) \o "%"

\* with the difference r in units of 10^-f,
signOfDifference(precision, f, r) == writeDifference(precision, f, r < 0, IF r < 0 THEN 0 - r ELSE r)

\* with the magnitude mag of the number in units of 10^-f,
differenceFrom100(number, f, mag) ==
  signOfDifference(getPrecision(number), f,
                   100 * Pow10(f) - (IF Ch(number, 1) = "-" THEN 0 - mag ELSE mag))

\* with the digits before and after the point as numbers,
magnitudeOf(number, f, whole, part) == differenceFrom100(number, f, whole * Pow10(f) + part)

\* with the places a, b and c where the digits, the point and the rest begin.
digitsOf(number, a, b, c) ==
  magnitudeOf(number, IF c > b THEN c - b - 1 ELSE 0,
              ToNumber(Sub(number, a, b - 1), 0), ToNumber(Sub(number, b + 1, c - 1), 0))

pointOf(number, a, b) ==
  digitsOf(number, a, b, IF Ch(number, b) = "." THEN SkipDigits(number, b + 1) ELSE b)

signOf(number, a) == pointOf(number, a, SkipDigits(number, a))

flipPercentage(number) == signOf(number, IF Ch(number, 1) \in {"-", "+"} THEN 2 ELSE 1)

\* flipPositionValue.  The number before the percent sign is a sign, digits, a
\* point and digits, and blanks (the pattern admits blanks before the unit).
\* 100 - number is the exact difference, and toFixed( precision ) writes it
\* with precision digits after the point; the double arithmetic of the code
\* gives these digits as long as the number has fewer than fifteen of them.
flipPositionValue(value) ==
  IF Len(value) = 0 \/ Ch(value, Len(value)) # "%" THEN value
  ELSE flipPercentage(Sub(value, 1, Len(value) - 1))

\* parseFloat of a sign, digits, a point and up to two digits, in hundredths.
parseFloat(text) ==
  LET a == IF Ch(text, 1) \in {"-", "+"} THEN 2 ELSE 1
      b == SkipDigits(text, a)
      c == IF Ch(text, b) = "." THEN SkipDigits(text, b + 1) ELSE b
      frac == Sub(text, b + 1, c - 1)
      mag == 100 * ToNumber(Sub(text, a, b - 1), 0) +
             (IF frac = "" THEN 0
              ELSE IF Len(frac) = 1 THEN 10 * ToNumber(frac, 0) ELSE ToNumber(Sub(frac, 1, 2), 0))
  IN IF Ch(text, 1) = "-" THEN 0 - mag ELSE mag

\* getPrecision of a number of hundredths: the digits its toString has after
\* the point.
getPrecisionOfNumber(r) == IF r % 100 = 0 THEN 0 ELSE IF r % 10 = 0 THEN 1 ELSE 2

\* toFixed( precision ) of a number of hundredths that has no more digits than
\* precision after its point.
toFixed(r, precision) ==
  LET abs == IF r < 0 THEN 0 - r ELSE r
  IN (IF r < 0 THEN "-" ELSE "") \o Digits(abs \div 100, 1) \o
     (IF precision = 0 THEN ""
      ELSE IF precision = 1 THEN "." \o Digits((abs % 100) \div 10, 1)
      ELSE "." \o Digits(abs % 100, 2) \o
           (IF precision > 2 THEN Digits(0, precision - 2) ELSE ""))

\* The % of JavaScript, which has the sign of the dividend.
Remainder(x, m) == IF x < 0 THEN 0 - ((0 - x) % m) ELSE x % m

\* The callback of the linear gradient pass.  A group that took no part in
\* the match is undefined: the angle is then the empty text here, and the
\* unit of an angle that is not there is written as undefined.
linearGradient(ctx, match, c) ==
  LET angleQuantFloat == IF c[2] # "" THEN parseFloat(c[2]) ELSE 18000
      angleUnit == IF c[3] # "" THEN c[3] ELSE "deg"
      max == angleMaxes[angleUnit]
      addedRotation == (ctx.map[0] * max) \div 4
      a == getPrecision(IF c[2] # "" THEN c[2] ELSE "0")
      precision == IF a > getPrecisionOfNumber(addedRotation) THEN a
                   ELSE getPrecisionOfNumber(addedRotation)
      angleQuant == Remainder(max + (IF ctx.reflected THEN 1 ELSE 0 - 1) *
                                    (addedRotation - angleQuantFloat), max)
  IN IF angleQuantFloat = 0 /\ c[3] # "" THEN match
     ELSE c[1] \o
          (IF c[4] # "" \/ angleQuant # 18000
           THEN toFixed(angleQuant, precision) \o
                (IF angleQuant = 0 THEN (IF c[2] # "" THEN c[3] ELSE "undefined") ELSE angleUnit) \o
                (IF c[4] # "" THEN c[4] ELSE ", ")
           ELSE "") \o c[5]

\* all[ k ] of processFourNotationArray, an absent group being the empty text.
processFourNotationArray(pointMap, array, turned) ==
  LET all(k) == IF k + 1 \in DOMAIN array THEN array[k + 1] ELSE ""
      or(a, b) == IF a # "" THEN a ELSE b
      fourNotationMap(index) ==
        IF BitAnd(index, 1) = 1
        THEN or(all(index), IF index = 5 /\ turned /\ all(4) # "" THEN " " ELSE "")
        ELSE IF all(index) = ""
        THEN (IF index = 6 /\ turned /\ all(4) # "" THEN all(pointMap[index \div 2] * 2) ELSE "")
        ELSE or(all(pointMap[index \div 2] * 2),
                or(all(BitXor(pointMap[index \div 2] * 2, 4)), all(0)))
      RECURSIVE join(_)
      join(index) == IF index > 6 THEN "" ELSE fourNotationMap(index) \o join(index + 1)
  IN join(0)

-----------------------------------------------------------------------------
\* The rewrite passes: str.replace( regex, callback )

bgRepeatValueRegExp ==
  Cat(<<Alt(<<Cat(<<Lt("repeat-"), Cls({"x", "y"})>>),
              Cat(<<Grp(1, Alt(<<Cat(<<Opt(Lt("no-")), Lt("repeat")>>), Lt("space"), Lt("round")>>)),
                    sws(2),
                    Grp(3, Alt(<<Cat(<<Opt(Lt("no-")), Lt("repeat")>>), Lt("space"),
                                 Lt("round")>>))>>)>>),
        lookAheadNotClosingParenPattern>>)

backgroundTwoPointSwap(match, x, space, y) ==
  IF y # "" THEN y \o space \o x
  ELSE IF toLowerCase(match) = "repeat-x" THEN "repeat-y" ELSE "repeat-x"

\* The border radius callback with the radii sent through the permutation of
\* the sides instead of the corners.
borderRadiusBySides(d, c) ==
  LET preSlash == processFourNotationArray(d.map,
                    <<c[2], c[3], c[4], c[5], c[6], c[7], c[8]>>, d.quarterTurned)
      postSlash == processFourNotationArray(d.map,
                     <<c[10], c[11], c[12], c[13], c[14], c[15], c[16]>>, d.quarterTurned)
  IN c[1] \o
     (IF d.quarterTurned THEN postSlash \o c[9] \o preSlash
      ELSE preSlash \o c[9] \o postSlash) \o c[17]

\* The callback of the border radius pass: the radii before and after the
\* slash, each through cornersMap, trade places when quarterTurned.
borderRadius(d, c) ==
  LET preSlash == processFourNotationArray(d.cornersMap,
                    <<c[2], c[3], c[4], c[5], c[6], c[7], c[8]>>, d.cornersFlipped)
      postSlash == processFourNotationArray(d.cornersMap,
                     <<c[10], c[11], c[12], c[13], c[14], c[15], c[16]>>, d.cornersFlipped)
  IN c[1] \o
     (IF d.quarterTurned THEN postSlash \o c[9] \o preSlash
      ELSE preSlash \o c[9] \o postSlash) \o c[17]

\* A four-notation callback that never asks for a fourth value.
fourNotationUnturned(d, c) ==
  c[1] \o processFourNotationArray(d.map, <<c[2], c[3], c[4], c[5], c[6], c[7], c[8]>>,
                                   FALSE) \o c[9]

fourNotation(d, c) ==
  c[1] \o processFourNotationArray(d.map, <<c[2], c[3], c[4], c[5], c[6], c[7], c[8]>>,
                                   d.quarterTurned) \o c[9]

\* The callback of positionFormat; c[1..10] are pre, xPos, xEdge, space1, yPos,
\* yEdge, slash, sizeX, sizeSpace, sizeY.
positionCallback(d, c) ==
  LET plain == c[3] = "" \/ c[6] = ""
      alone == plain /\ c[5] = ""
      toCenter == d.quarterTurned /\ c[3] = ""
      yPos == IF alone THEN (IF toCenter THEN "center" ELSE "")
              ELSE IF plain /\ c[6] = "" /\ d.flipY THEN flipPositionValue(c[5])
              ELSE c[5]
      space1 == IF alone THEN (IF toCenter THEN " " ELSE "") ELSE c[4]
      xPos == IF plain /\ c[3] = "" /\ d.flipX THEN flipPositionValue(c[2]) ELSE c[2]
      position == IF d.quarterTurned THEN yPos \o space1 \o xPos ELSE xPos \o space1 \o yPos
  IN c[1] \o position \o
     (IF c[10] # ""
      THEN c[7] \o (IF d.quarterTurned THEN c[10] \o c[9] \o c[8] ELSE c[8] \o c[9] \o c[10])
      ELSE "")

\* dir.split( '-' ).map( swapText ).join( '-' ), dir with at most one hyphen.
swapDir(d, dir) ==
  LET dash == indexOf(dir, "-", 1)
  IN IF dash = 0 THEN swapText(d, dir)
     ELSE swapText(d, Sub(dir, 1, dash - 1)) \o "-" \o swapText(d, From(dir, dash + 1))

\* value.split( new RegExp( '(' + comma + ')', 'g' ) ): the texts between the
\* commas are vals and the commas with their space are separators.
splitOnComma(value) ==
  LET ms == Matches(comma, value)
      n == Len(ms)
  IN [vals |-> [k \in 1..(n + 1) |->
                  Sub(value, IF k = 1 THEN 1 ELSE ms[k - 1].e,
                      IF k = n + 1 THEN Len(value) ELSE ms[k].at - 1)] \o <<>>,
      separators |-> [k \in 1..n |-> ms[k].match] \o <<>>]

\* vals[ k - 1 ] is there and is not the empty text.
Truthy(vals, k) == k <= Len(vals) /\ vals[k] # ""

flipAt(vals, k, flip) == IF flip THEN [vals EXCEPT ![k] = flipSign(vals[k])] ELSE vals

\* vals[ 0 ] = [ vals[ 1 ], vals[ 1 ] = vals[ 0 ] ][ 0 ] || fallbackFirstArg
swapFirstTwo(vals, fallbackFirstArg) ==
  [k \in 1..(IF Len(vals) < 2 THEN 2 ELSE Len(vals)) |->
     IF k = 1 THEN (IF Truthy(vals, 2) THEN vals[2] ELSE fallbackFirstArg)
     ELSE IF k = 2 THEN vals[1] ELSE vals[k]] \o <<>>

\* A matrix whose translation keeps its signs.
matrixValsUnflipped(d, vals) ==
  IF d.quarterTurned THEN <<vals[4], vals[3], vals[2], vals[1], vals[6], vals[5]>> ELSE vals

\* case 'matrix' of the switch, vals the six values that matrix( ) takes:
\* newVals after the flips of the translation, the swaps of a quarter turn
\* and the flips of the skew values.
matrixVals(d, vals) ==
  LET tx == IF d.flipX THEN flipSign(vals[5]) ELSE vals[5]
      ty == IF d.flipY THEN flipSign(vals[6]) ELSE vals[6]
      turned == IF d.quarterTurned THEN <<vals[4], vals[3], vals[2], vals[1], ty, tx>>
                ELSE <<vals[1], vals[2], vals[3], vals[4], tx, ty>>
  IN IF d.flipX # d.flipY
     THEN [turned EXCEPT ![2] = flipSign(turned[2]), ![3] = flipSign(turned[3])]
     ELSE turned

\* The switch on lcFnName: vals as the case leaves them.
transformVals(d, lcFnName, vals) ==
  LET turn(v, fallbackFirstArg) ==
        IF d.quarterTurned THEN swapFirstTwo(v, fallbackFirstArg) ELSE v
      last == Sub(lcFnName, Len(lcFnName), Len(lcFnName))
  IN CASE lcFnName = "rotate3d" ->
            turn(flipAt(flipAt(flipAt(vals, 3, d.reflected), 1, d.flipY # d.quarterTurned),
                        2, d.flipX # d.quarterTurned), "0")
       [] lcFnName \in {"translate", "translate3d"} ->
            turn(flipAt(flipAt(vals, 1, d.flipX), 2, d.flipY /\ Truthy(vals, 2)), "0")
       [] lcFnName = "skew" ->
            turn(flipAt(flipAt(vals, 1, d.flipX # d.flipY),
                        2, d.flipX # d.flipY /\ Truthy(vals, 2)), "0")
       [] lcFnName \in {"skewx", "skewy"} -> flipAt(vals, 1, d.flipX # d.flipY)
       [] lcFnName \in {"scale", "scale3d"} -> turn(vals, "1")
       [] lcFnName \in {"rotate", "rotatez"} -> flipAt(vals, 1, d.reflected)
       [] lcFnName \in {"translatex", "translatey"} ->
            flipAt(vals, 1, IF last = "x" THEN d.flipX ELSE d.flipY)
       [] lcFnName \in {"rotatex", "rotatey"} ->
            flipAt(vals, 1, (IF last = "x" THEN d.flipY ELSE d.flipX) # d.quarterTurned)
       [] lcFnName = "matrix" -> matrixVals(d, vals)
       [] OTHER -> vals

\* vals.reduce( ... ): the values with separators[ index - 1 ] || ', ' between.
RECURSIVE joinVals(_, _, _)
joinVals(vals, separators, index) ==
  IF index > Len(vals) THEN ""
  ELSE (IF index = 1 THEN ""
        ELSE IF index - 1 <= Len(separators) THEN separators[index - 1] ELSE ", ") \o
       vals[index] \o joinVals(vals, separators, index + 1)

\* The callback of transformFunctionRegExp: a rotate3d without its four
\* arguments stays, any other function gets its swapped name and its values.
transformFunction(d, match, c) ==
  LET parts == splitOnComma(c[3])
  IN IF toLowerCase(c[1]) = "rotate3d" /\ Len(parts.vals) # 4 THEN match
     ELSE swapText(d, c[1]) \o c[2] \o
          joinVals(transformVals(d, toLowerCase(c[1]), parts.vals), parts.separators, 1) \o c[4]

RECURSIVE Replace(_, _, _, _)

\* One value.replace( regex, callback ) inside a callback.
Inner(regex, pass, ctx) == [regex |-> regex, pass |-> pass, ctx |-> ctx]

\* The callbacks that replace inside one of their groups: the text before the
\* group, the replacements made on it in their order, and the text behind.
\* ctx is what the inner callback closes over: the descriptor, or for the
\* single value of background-position-x and -y whether that axis flips.
innerReplaces(pass, ctx, m) ==
  CASE pass = "shadow" ->
         [pre |-> m.c[1], str |-> m.c[2], post |-> "",
          chain |-> <<Inner(shadowValueRegExp, "shadowValue", ctx)>>]
    [] pass = "bg" ->
         [pre |-> swapText(ctx, m.c[1]) \o m.c[2], str |-> m.c[3], post |-> "",
          chain |-> (IF ctx.quarterTurned
                     THEN <<Inner(bgRepeatValueRegExp, "bgRepeatValue", ctx)>> ELSE <<>>) \o
                    <<Inner(positionValuesRegExp, "position", ctx)>>]
    [] pass = "bgXY" ->
         IF m.c[2] # ""
         THEN [pre |-> swapText(ctx, m.c[1]) \o m.c[2], str |-> m.c[3], post |-> m.c[4],
               chain |-> <<Inner(bgPositionSingleValueRegExp, "bgPositionSingleValue",
                                 IF toLowerCase(m.c[1]) = "background-position-x"
                                 THEN ctx.flipX ELSE ctx.flipY)>>]
         ELSE [pre |-> swapText(ctx, m.c[1]), str |-> "", post |-> "", chain |-> <<>>]
    [] pass = "transforms" ->
         [pre |-> m.c[1], str |-> m.c[2], post |-> m.c[3],
          chain |-> <<Inner(transformFunctionRegExp, "transformFunction", ctx)>>]

\* str after the replacements of chain, one after the other.
RECURSIVE replaceEach(_, _, _)
replaceEach(chain, k, str) ==
  IF k > Len(chain) THEN str
  ELSE replaceEach(chain, k + 1, Replace(chain[k].regex, chain[k].pass, chain[k].ctx, str))

replaceInside(n) == n.pre \o replaceEach(n.chain, 1, n.str) \o n.post

\* The callbacks of the passes, by the name of the pass; m is the match, and
\* ctx is what the callback closes over.
Apply(pass, ctx, m) ==
  CASE pass = "urlDir" -> m.c[1] \o swapDir(ctx, m.c[2])
    [] pass = "urlEdge" -> m.c[1] \o swapText(ctx, m.c[2])
    [] pass = "sides" ->
         IF m.c[2] # ""
         THEN m.c[1] \o m.c[2] \o
              (IF m.c[3] = "" /\ ctx.dirFlipped /\ toLowerCase(m.c[4]) \in {"right", "left"}
               THEN (IF toLowerCase(m.c[4]) = "right" THEN "left" ELSE "right")
               ELSE m.c[4])
         ELSE m.c[1] \o swapText(ctx, m.c[4])
    [] pass = "cursor" ->
         m.c[1] \o
         (IF m.c[4] # "" THEN swapText(ctx, m.c[4])
          ELSE swapText(ctx, IF ctx.quarterTurned THEN m.c[3] ELSE m.c[2]) \o
               swapText(ctx, IF ctx.quarterTurned THEN m.c[2] ELSE m.c[3]) \o "-resize")
    [] pass = "borderRadius" -> borderRadius(ctx, m.c)
    [] pass = "linearGradient" -> linearGradient(ctx, m.match, m.c)
    [] pass \in {"shadow", "bg", "bgXY", "transforms"} ->
         replaceInside(innerReplaces(pass, ctx, m))
    [] pass = "shadowValue" ->
         m.c[1] \o flipXYPositions(ctx.map[1], m.c[2], m.c[4]) \o m.c[3] \o
         flipXYPositions(ctx.map[2], m.c[2], m.c[4]) \o m.c[5]
    [] pass \in {"quant", "lineWidth", "color"} -> fourNotation(ctx, m.c)
    [] pass = "bgRepeatValue" -> backgroundTwoPointSwap(m.match, m.c[1], m.c[2], m.c[3])
    [] pass = "position" -> positionCallback(ctx, m.c)
    [] pass = "transformFunction" -> transformFunction(ctx, m.match, m.c)
    [] pass = "bgPositionSingleValue" ->
         m.c[1] \o (IF ctx THEN flipPositionValue(m.c[2]) ELSE m.c[2])
    [] pass = "direction" -> m.c[1] \o swapText(ctx, m.c[2])
    [] pass = "flipSign" -> flipSign(m.match)

Replace(regex, pass, ctx, str) ==
  LET ms == Matches(regex, str)
  IN Splice(str, ms, [k \in DOMAIN ms |-> Apply(pass, ctx, ms[k])], 1, 1)

\* The pattern each pass of the chain replaces.
regexOf(pass) ==
  CASE pass = "urlDir" -> dirInUrlRegExp
    [] pass = "urlEdge" -> edgeInUrlRegExp
    [] pass = "sides" -> sidesRegExp
    [] pass = "cursor" -> cursorRegExp
    [] pass = "borderRadius" -> borderRadiusRegExp
    [] pass = "shadow" -> shadowRegExp
    [] pass = "linearGradient" -> linearGradientRegExp
    [] pass = "quant" -> fourNotationQuantRegExp
    [] pass = "lineWidth" -> fourNotationLineWidthRegExp
    [] pass = "color" -> fourNotationColorRegExp
    [] pass = "bg" -> bgRegExp
    [] pass = "bgXY" -> bgXYRegExp
    [] pass = "transforms" -> transformRegExp
    [] pass = "direction" -> directionRegExp

-----------------------------------------------------------------------------
\* Tokenizer

\* A tokenizer that keeps the matches of the call before.
TokenizerKept(old) == old

\* var matches = [] of a new Tokenizer; old is what an earlier call left.
Tokenizer(old) == <<>>

\* tokenize: each match is pushed and gives way to the token that carries the
\* length of matches after the push.
tokenize(regex, token, matches, str) ==
  LET ms == Matches(regex, str)
  IN [out |-> Splice(str, ms,
                     [k \in DOMAIN ms |-> token[1] \o ToString(Len(matches) + k) \o token[2]],
                     1, 1),
      matches |-> matches \o [k \in DOMAIN ms |-> ms[k].match]]

\* A detokenize that hands the matches out in the order of the tokens it
\* finds, whatever their indices are.
detokenizeInOrder(token, matches, str) ==
  LET ms == Matches(Cat(<<Lx(token[1]), Grp(1, Plus(Cls(Digit))), Lx(token[2])>>), str)
  IN Splice(str, ms,
            [k \in DOMAIN ms |-> IF k \in DOMAIN matches THEN matches[k] ELSE "undefined"],
            1, 1)

\* detokenize: matches[ foundIndex - 1 ], and the text "undefined" where
\* there is no such match.  The pattern of the tokens has no i flag.
detokenize(token, matches, str) ==
  LET ms == Matches(Cat(<<Lx(token[1]), Grp(1, Plus(Cls(Digit))), Lx(token[2])>>), str)
  IN Splice(str, ms,
            [k \in DOMAIN ms |->
               IF ToNumber(ms[k].c[1], 0) \in DOMAIN matches
               THEN matches[ToNumber(ms[k].c[1], 0)] ELSE "undefined"],
            1, 1)

-----------------------------------------------------------------------------
\* calcTokenizer

\* /(?=((?:-moz-|-webkit-)?calc\())/gi
calcRegex ==
  Look(Grp(1, Cat(<<Opt(Alt(<<Lt("-moz-"), Lt("-webkit-")>>)), Lt("calc(")>>)))

\* regex.exec( css ) from lastIndex i: the first match, <<>> if there is none.
CalcExec(s, i) ==
  LET hits == {j \in i..Len(s) : M(calcRegex, s, [e |-> j, c |-> NoCaps]) # <<>>}
  IN IF hits = {} THEN <<>>
     ELSE <<[index |-> Min(hits),
             c |-> Head(M(calcRegex, s, [e |-> Min(hits), c |-> NoCaps])).c]>>

\* for ( ; depth > 0; ): the position after the matching parenthesis, or after
\* the whole text when the parentheses do not close.
RECURSIVE CalcScan(_, _, _)
CalcScan(s, lastBracket, depth) ==
  IF depth = 0 THEN lastBracket
  ELSE LET nextOpen == indexOf(s, "(", lastBracket)
           nextClose == indexOf(s, ")", lastBracket)
       IN IF nextOpen # 0 /\ nextClose # 0 /\ nextOpen < nextClose
          THEN CalcScan(s, nextOpen + 1, depth + 1)
          ELSE IF nextClose # 0 THEN CalcScan(s, nextClose + 1, depth - 1)
          ELSE Len(s) + 1

\* calcTokenizer.tokenize from lastIndex on: each occurrence is replaced by the
\* token with the index of its match, and the search goes on from where it
\* was found, the match being empty.
RECURSIVE CalcTokenizeFrom(_, _)
CalcTokenizeFrom(st, lastIndex) ==
  LET lastCalc == CalcExec(st.out, lastIndex)
  IN IF lastCalc = <<>> THEN st
     ELSE LET calcIndex == lastCalc[1].index
              lastBracket == CalcScan(st.out, calcIndex + Len(lastCalc[1].c[1]), 1)
          IN CalcTokenizeFrom(
               [out |-> Sub(st.out, 1, calcIndex - 1) \o
                        calcToken[1] \o ToString(Len(st.matches)) \o calcToken[2] \o
                        From(st.out, lastBracket),
                matches |-> Append(st.matches, Sub(st.out, calcIndex, lastBracket - 1))],
               calcIndex)

calcTokenize(matches, str) == CalcTokenizeFrom([out |-> str, matches |-> matches], 1)

\* (-?) calcToken with the index captured, without the i flag.
calcDetokenizeRegex ==
  Cat(<<Grp(1, Opt(Lx("-"))), Lx(calcToken[1]), Grp(2, Plus(Cls(Digit))), Lx(calcToken[2])>>)

\* matches[ index ] is undefined: index is a text, and a property of the array
\* only if it is the decimal form of a position of the array.
calcMissing(matches, index) == ~\E n \in 0..(Len(matches) - 1) : ToString(n) = index

\* calcTokenizer.detokenize throws: a minus in front of a token whose index
\* has no match calls replace on undefined, a TypeError.
calcDetokenizeThrows(matches, str) ==
  LET ms == Matches(calcDetokenizeRegex, str)
  IN \E k \in DOMAIN ms : ms[k].c[1] # "" /\ calcMissing(matches, ms[k].c[2])

\* calcTokenizer.detokenize: a minus in front flips every quantity with a unit
\* and is dropped.
calcDetokenize(matches, str) ==
  LET ms == Matches(calcDetokenizeRegex, str)
  IN Splice(str, ms,
            [k \in DOMAIN ms |->
               IF calcMissing(matches, ms[k].c[2]) THEN "undefined"
               ELSE IF ms[k].c[1] # ""
               THEN Replace(quantPlainUnitRegex, "flipSign", ms[k].c[1],
                            matches[ToNumber(ms[k].c[2], 0) + 1])
               ELSE matches[ToNumber(ms[k].c[2], 0) + 1]],
            1, 1)

-----------------------------------------------------------------------------
\* The passes of transform() that this model leaves to the text they need

\* Every pattern of the passes for radial gradients, border-image,
\* transform-origin, perspective-origin and writing-mode
\* (lines 784-971) and of the passes behind
\* quarterTurned (lines 980-1009) holds one of these texts, so that a
\* stylesheet without them passes through these statements as it is.
laterPassesPattern ==
  Alt(<<Cat(<<Lt("border-"), Alt(<<Lt("left"), Lt("right")>>), Lt("-"),
              Alt(<<Lt("top"), Lt("bottom")>>), Lt("-radius")>>),
        Lt("radial-gradient("), Lt("border-image"), Lt("transform-origin"),
        Lt("perspective-origin"), Lt("writing-mode"), Cat(<<Lt("resize"), colon>>),
        Cat(<<Alt(<<Lt("overflow"), Lt("scroll-snap-points"), Lt("scroll-snap-type"),
                    Lt("overscroll-behavior"), Lt("pan")>>), Lt("-"), Cls({"x", "y"})>>),
        Lt("height"), Lt("width"), Lt("background-repeat"), Lt("background-size"),
        Lt("@media")>>)

Plain(str) == Matches(laterPassesPattern, str) = <<>>

-----------------------------------------------------------------------------
\* The inputs of the calls

\* A stylesheet is given in parts: declarations, protected regions, comments and
\* the text between them.
Part(kind, text) == [kind |-> kind, prop |-> "", value |-> "", term |-> "", text |-> text]

Decl(prop, value, term) ==
  [kind |-> "decl", prop |-> prop, value |-> value, term |-> term,
   text |-> prop \o ": " \o value \o term]

RECURSIVE Join(_)
Join(parts) == IF parts = <<>> THEN "" ELSE Head(parts).text \o Join(Tail(parts))

\* The two offsets of a shadow, X before Y.
Offsets(X, Y) == [kind |-> "decl", prop |-> X, value |-> Y, term |-> "", text |-> X \o " " \o Y]

\* The angle of a gradient: its number, its unit and what separates it from
\* the colours.
Angle(number, unit, separator) ==
  [kind |-> "decl", prop |-> number, value |-> unit, term |-> separator,
   text |-> number \o unit \o separator]

RECURSIVE List(_, _)
List(vals, k) ==
  IF k > Len(vals) THEN "" ELSE (IF k = 1 THEN "" ELSE ", ") \o vals[k] \o List(vals, k + 1)

\* A transform function: its name and its arguments.
Func(fnName, vals) ==
  [kind |-> "decl", prop |-> fnName, value |-> vals, term |-> "(",
   text |-> fnName \o "(" \o List(vals, 1) \o ")"]

\* The eight orientation specifiers.
Dirs == {"lr-tb", "lr-bt", "rl-tb", "rl-bt", "tb-lr", "tb-rl", "bt-lr", "bt-rl"}

\* The arguments of a call after css: options omitted, a boolean (with the third
\* argument), null, or an object.
Omitted == [kind |-> "undefined", sourceDir |-> "", targetDir |-> "",
            transformDirInUrl |-> FALSE, transformEdgeInUrl |-> FALSE, third |-> "undefined"]

Options(sourceDir, targetDir, dirInUrl, edgeInUrl) ==
  [kind |-> "object", sourceDir |-> sourceDir, targetDir |-> targetDir,
   transformDirInUrl |-> dirInUrl, transformEdgeInUrl |-> edgeInUrl, third |-> "undefined"]

Pairs == {Options(a, b, FALSE, FALSE) : a \in Dirs, b \in Dirs}

\* Pairs that keep the axes, flipping the one, the other or both.
AxisPairs == {Options("lr-tb", b, FALSE, FALSE) : b \in {"rl-tb", "lr-bt", "rl-bt"}}

Args(s) ==
  CASE s = "api" ->
         {Omitted, [Omitted EXCEPT !.kind = "null"]} \cup
         {[Omitted EXCEPT !.kind = "boolean", !.transformDirInUrl = b, !.third = t] :
            b \in BOOLEAN, t \in {"undefined", "true", "false"}} \cup
         {o \in {Options(a, b, FALSE, TRUE) : a \in Dirs \cup {""}, b \in Dirs \cup {""}} :
            o.sourceDir = o.targetDir \/ o.sourceDir = "" \/ o.targetDir = ""}
    [] s = "calls" -> {Omitted, Options("rl-tb", "lr-bt", FALSE, FALSE)}
    [] s = "tokenizer" -> {Omitted}
    [] s = "calc" -> {Omitted} \cup AxisPairs
    [] s = "order" -> {Omitted} \cup AxisPairs
    [] s = "calcLoop" -> {Omitted}
    [] s = "gradient" -> {Omitted} \cup Pairs
    [] s = "shadow" -> {Omitted} \cup Pairs
    [] s = "transform" -> {Omitted} \cup Pairs
    [] s = "twice" -> {Omitted} \cup AxisPairs
    [] s \in {"protect", "selectors"} ->
         {Omitted, Options("lr-tb", "tb-rl", FALSE, FALSE)} \cup AxisPairs
    [] s \in {"direction", "sides", "cursor", "radius", "roundtrip", "corners", "shorthands"} ->
         {Omitted} \cup Pairs
    [] s = "values" -> {Omitted} \cup AxisPairs
    [] s = "forms" ->
         {Omitted, Options("lr-tb", "rl-tb", FALSE, FALSE)} \cup
         {[Omitted EXCEPT !.kind = "boolean", !.transformDirInUrl = b, !.third = t] :
            b \in BOOLEAN, t \in {"true", "false"}} \cup
         {Options("", "", b1, b2) : b1 \in BOOLEAN, b2 \in BOOLEAN} \cup
         {[Options("", "", b, FALSE) EXCEPT !.third = "true"] : b \in BOOLEAN}
    [] s = "url" ->
         {Omitted} \cup
         {[Omitted EXCEPT !.kind = "boolean", !.transformDirInUrl = b, !.third = t] :
            b \in BOOLEAN, t \in {"true", "false"}} \cup
         {Options("", "", b1, b2) : b1 \in BOOLEAN, b2 \in BOOLEAN}

NoFlip == "/* @noflip */"

Inputs(s) ==
  CASE s = "api" ->
         { <<Decl("float", "left", ";")>>,
           <<Part("noflip", NoFlip \o " left: 0;"), Part("text", " "), Decl("right", "0", ";")>>,
           <<Part("text", "a { b: url(left" \o BT \o "ltr.png) }")>>,
           <<Decl("margin", "calc(1px + 2px) 2px 3px 4px", ";")>>,
           <<Part("text", BT \o " "), Decl("margin", "-" \o BT \o "CALC0" \o BT \o " 2px", ";")>> }
    [] s = "calls" ->
         { <<Part("comment", "/* left */"), Part("text", " "), Decl("float", "left", ";")>>,
           <<Part("text", BT \o BT \o "COMMENT1" \o BT \o " "), Decl("float", "left", ";")>> }
    [] s = "protect" ->
         { <<Part("noflip", NoFlip \o " left: 0;"), Part("text", " "), Decl("right", "0", ";")>>,
           <<Part("text", "a { "), Decl("float", "left", ";"), Part("text", " "),
             Part("noflip", NoFlip \o " float: left;"), Part("text", " }")>>,
           <<Part("noflip", NoFlip \o " div { float: left; }"), Part("text", " b { "),
             Decl("float", "left", ";"), Part("text", " }")>>,
           <<Part("noflip", NoFlip \o " 50% { left: 0; right: 1px }")>>,
           <<Part("noflip", NoFlip \o " a { content: \"" \o BT \o "\"; left: 0 }")>>,
           <<Part("comment", "/* left */"), Decl("right", "10px", ";")>>,
           <<Part("comment", "/* left /* right */"), Decl("right", "10px", "")>>,
           <<Part("comment", "/* " \o BT \o "left" \o BT \o " */"), Part("text", " "),
             Decl("right", "10px", ";")>> }
    [] s = "direction" ->
         { <<Decl("direction", "ltr", ";")>>,
           <<Decl("direction", "rtl", "")>>,
           <<Part("text", "b { "), Decl("direction", "ltr", ""), Part("text", " }")>> }
    [] s = "sides" ->
         { <<Decl("float", "left", ";")>>, <<Decl("clear", "right", ";")>>,
           <<Decl("text-align", "left", ";")>>, <<Decl("text-align-last", "right", ";")>>,
           <<Decl("vertical-align", "top", ";")>>, <<Decl("vertical-align", "text-bottom", ";")>>,
           <<Decl("text-orientation", "sideways-left", ";")>>,
           <<Decl("caption-side", "bottom", ";")>>,
           <<Decl("left", "0", ";")>>, <<Decl("margin-right", "1px", ";")>>,
           <<Decl("border-top", "0", ";")>>, <<Decl("padding-bottom", "0", ";")>> }
    [] s = "cursor" ->
         { <<Decl("cursor", c \o "-resize", ";")>> :
             c \in {"n", "e", "s", "w", "ne", "nw", "se", "sw"} }
    [] s = "radius" ->
         { <<Decl("border-radius", v, ";")>> :
             v \in {"15px 10px 15px 0px", "5px 9px 7px", "8px 7px !important", "5px",
                    "15px / 0 20px", "5px 9px 7px / 3px 4px"} }
    [] s = "corners" ->
         { <<Decl("cursor", "nesw-resize", ";")>>, <<Decl("cursor", "nwse-resize", ";")>> }
    [] s = "shorthands" ->
         { <<Decl("margin", "1px 2px", ";")>>, <<Decl("padding", "1px 2px 3px", ";")>>,
           <<Decl("border-style", "solid dotted dashed double", ";")>>,
           <<Decl("border-color", "red green blue !important", ";")>> }
    [] s = "tokenizer" ->
         { <<Part("comment", "/* a */"), Part("text", " b "), Part("comment", "/* c */"),
             Part("text", " d")>>,
           <<Part("comment", "/*1*/"), Part("comment", "/*2*/"), Part("text", " "),
             Part("comment", "/* 3 */")>>,
           <<Part("text", "x { y: z }")>> }
    [] s = "twice" ->
         { <<Decl("float", "left", ";")>>, <<Decl("margin-right", "1px", ";")>>,
           <<Decl("vertical-align", "top", ";")>>,
           <<Decl("margin", "1px 2px 3px 4px", ";")>>, <<Decl("padding", "1px 2px 3px 4px", "")>>,
           <<Decl("border-color", "red green blue black", ";")>>,
           <<Decl("border-radius", "1px 2px 3px 4px", ";")>>,
           <<Decl("cursor", "ne-resize", ";")>>, <<Decl("direction", "ltr", ";")>>,
           <<Decl("background-position", "25% 50%", ";")>>,
           <<Decl("background-position", ".5% 10%", ";")>>,
           <<Decl("background-position-x", "25%", ";")>> }
    [] s = "shadow" ->
         { <<Part("text", "box-shadow: "), Offsets("1px", "2px"), Part("text", " 3px red;")>>,
           <<Part("text", "text-shadow: "), Offsets("-1px", "+2px"), Part("text", " blue, "),
             Offsets("3px", "-4px"), Part("text", " green;")>>,
           <<Part("text", "box-shadow: inset "), Offsets("0", "-0px"), Part("text", " red;")>>,
           <<Part("text", "box-shadow: red "), Offsets("0.0em", "5px"), Part("text", ";")>>,
           <<Part("text", "filter: drop-shadow("), Offsets("1px", "2px"), Part("text", " 3px black);")>>,
           <<Part("text", "box-shadow: rgba(0, 0, 0, 0.5) "), Offsets("1.5em", "-2em"),
             Part("text", ";")>>,
           <<Part("text", "a { box-shadow: "), Offsets("-.5em", "0"), Part("text", " }")>>,
           <<Part("text", "box-shadow: "), Offsets("1px", "2px")>> }
    [] s = "gradient" ->
         { <<Part("text", "background: linear-gradient("), a, Part("text", "red, blue);")>> :
             a \in {Angle("45", "deg", ", "), Angle("-45", "deg", ", "), Angle("400", "deg", ", "),
                    Angle("0", "deg", ", "), Angle("0", "", ", "), Angle("", "", ""),
                    Angle("100", "grad", ","), Angle("0.25", "turn", ", "),
                    Angle("180", "deg", ", "), Angle("22.5", "deg", ", ")} } \cup
         { <<Part("text", "background-image: -moz-linear-gradient("), Angle("", "", ""),
             Part("text", "#326cc1, #234e8c)")>>,
           <<Part("text", "a { background: repeating-linear-gradient("), Angle("+90", "deg", " , "),
             Part("text", "red 10%, blue 20%) }")>> }
    [] s = "transform" ->
         { <<Part("text", "box-shadow: "), Offsets("5px", "-6px"), Part("text", " red; transform: "),
             Func("translate", <<"5px", "-6px">>), Part("text", "; transform: "),
             Func("matrix", <<"1", "2", "3", "4", "5", "-6">>), Part("text", ";")>>,
           <<Part("text", "transform: "), Func("matrix", <<"1", "0", "0", "1", "10", "20">>),
             Part("text", ";")>>,
           <<Part("text", "a { -webkit-transform: "),
             Func("matrix", <<"-1", "0.5", "-0.5", "1", "0", "-7">>), Part("text", " }")>>,
           <<Part("text", "transform: "), Func("scale", <<"2">>), Part("text", ";")>>,
           <<Part("text", "transform: "), Func("scale", <<"2", "3">>), Part("text", ";")>>,
           <<Part("text", "transform: "), Func("SCALE", <<"1", "-1">>), Part("text", " !important;")>>,
           <<Part("text", "transform: rotate(45deg) "), Func("scale", <<"0.5">>), Part("text", ";")>>,
           <<Part("text", "transform: "), Func("translate", <<"10px">>),
             Part("text", " skew(10deg, 20deg);")>>,
           <<Part("text", "transform: rotateY(10deg) translateX(10px);")>>,
           <<Part("text", "transform: rotate3d(1, 2, 3, 45deg) scaleX(2);")>>,
           <<Part("text", "transform: skewx( 10deg ) rotate3d(1, 2);")>>,
           <<Part("text", "transform: translate3d(1px , 2px,3px);")>> }
    [] s = "calcLoop" ->
         { <<Part("text", a), Part("text", b)>> :
             a \in {"", "margin: calc(1px) ", "-moz-calc((1px + 2px) * 3) ", "a(b) calc( "},
             b \in {"calc(1px + 2px", "calc(1px + (2px * 3))", "calc(calc(1px) + calc(2px))",
                    "calc(1px) calc(", "-webkit-calc(a(b)c(d)) x", "calc(calc(", "x) y(", "calc())"} }
    [] s = "order" ->
         { <<Part("comment", "/* c */"), Part("text", " "),
             Decl("margin-left", "calc(1px /* left */ + 2px)", ";"), Part("text", " "),
             Decl("float", "left", ";")>>,
           <<Part("noflip", NoFlip \o " margin-left: calc(1px /* c */ + 2px);"), Part("text", " "),
             Decl("float", "left", ";")>>,
           <<Part("noflip", NoFlip \o " a { float: left; /* c */ margin: calc(1px) }"),
             Part("text", " b { "), Decl("float", "left", ";"), Part("text", " }")>>,
           <<Part("comment", "/* calc(1px */"), Part("text", " "),
             Decl("margin-left", "calc(2px /* ) */ + 1px)", ";"), Part("text", " "),
             Part("noflip", NoFlip \o " left: 0;"), Part("text", " "), Decl("right", "0", ";")>>,
           <<Decl("margin-left", "calc(1px)", ";"), Part("text", " "), Part("comment", "/* left */"),
             Part("text", " "), Decl("float", "left", ";")>> }
    [] s = "calc" ->
         { <<Decl("margin-left", "calc(1px + 2px", ";"), Part("text", " "),
             Decl("float", "left", ";")>>,
           <<Decl("margin-left", "calc(1px + (2px * 3))", ";"), Part("text", " "),
             Decl("float", "left", ";")>>,
           <<Decl("margin-left", "-moz-calc((1px + 2px) * -3)", ";")>>,
           <<Decl("margin-left", "-webkit-calc(1px) calc(2px)", ";")>>,
           <<Decl("margin-left", "-calc(1px + 2px)", ";")>>,
           <<Decl("margin-left", "calc(1px + calc(2px", ";")>> }
    [] s = "selectors" ->
         { <<Part("text", "alright: 10px")>>, <<Part("text", "alleft: 10px")>>,
           <<Part("selector", ".column-left"), Part("text", " { "),
             Decl("float", "right", ""), Part("text", " }")>>,
           <<Part("selector", "a.left:hover"), Part("text", " { "),
             Decl("float", "right", ""), Part("text", " }")>>,
           <<Part("selector", "#bright-left,\n.test-me"), Part("text", " { "),
             Decl("float", "right", ""), Part("text", " }")>>,
           <<Part("selector", "div.leftpill, div.leftpillon"), Part("text", " {"),
             Decl("margin-left", "0 !important", ""), Part("text", "}")>>,
           <<Part("selector", "div.left > span.right+span.left"), Part("text", " { "),
             Decl("float", "right", ""), Part("text", " }")>>,
           <<Part("selector", ".top .left"), Part("text", " { "),
             Decl("padding-top", "0", ";"), Part("text", " }")>>,
           <<Part("selector", "a[title=\"left\"]"), Part("text", " { "),
             Decl("float", "right", ""), Part("text", " }")>> }
    [] s = "roundtrip" ->
         { <<Decl("float", "left", ";")>>, <<Decl("margin-right", "1px", ";")>>,
           <<Decl("direction", "ltr", ";")>>, <<Decl("cursor", "ne-resize", ";")>>,
           <<Decl("margin", "1px 2px 3px 4px", ";")>>,
           <<Decl("background-position", "25% 50%", ";")>>,
           <<Decl("background-position", "30%", ";")>>,
           <<Decl("background-position", ".5% 10%", ";")>> }
    [] s = "forms" ->
         { <<Part("text", "background: "), Part("url", "url(/foo/bar-left.png)")>>,
           <<Part("text", "background: "), Part("url", "url(/foo/bar-rtl_right.png)"),
             Part("text", ";"), Decl("right", "10px", ";"), Part("text", " "),
             Decl("direction", "ltr", "")>> }
    [] s = "url" ->
         { <<Part("text", "background: "), Part("url", "url(/foo/bar-left.png)")>>,
           <<Part("url", "url(\"http://b.com/img/t_ltr.gif\")")>>,
           <<Part("text", "background: "), Part("url", "url(/foo/bright.png)")>>,
           <<Part("text", "background: "), Part("url", "url(/foo/bar-rtl_right.png)"),
             Part("text", ";"), Decl("right", "10px", ";"), Part("text", " "),
             Decl("direction", "ltr", "")>>,
           <<Part("text", "background: "), Part("url", "url(\"left side.png\")"),
             Part("text", ";")>> }
    [] s = "values" ->
         { <<Decl("margin", "1px 2px 3px 4px", ";")>>,
           <<Decl("padding", "1px 2px 3px 4px !important", ";")>>,
           <<Decl("border-width", "1px 2px 3px 4px", ";")>>,
           <<Decl("border-style", "solid dotted dashed double", ";")>>,
           <<Decl("border-color", "red green blue gray", ";")>>,
           <<Decl("margin", "1px 2px", ";")>>,
           <<Decl("padding", "1px 2px 3px", ";")>>,
           <<Decl("padding", "1px 2px 3px 4px", "")>>,
           <<Part("text", "a { "), Decl("margin", "1px 2px 3px 4px", ""), Part("text", " }")>>,
           <<Decl("background-position", "25% 50%", ";")>>,
           <<Decl("background-position", "25% 50%", "")>>,
           <<Decl("background", "url(a.png) 25% 50%", ";")>>,
           <<Decl("background-position-x", "77%", ";")>>,
           <<Decl("background-position-x", "77%", "")>>,
           <<Decl("background-position-y", "23%", ";")>>,
           <<Decl("background-position", "0.5% 1.25%", ";")>>,
           <<Decl("background-position", "10px 5px", ";")>>,
           <<Decl("background-position", "100.5% 0", ";")>> }

\* The number of calls a behaviour makes.
MaxCalls == 3

-----------------------------------------------------------------------------
\* The calls

\* The statements of transform() after the descriptor, in their order.
tokenizeSteps == <<"escape", "noFlipSingle", "noFlipClass", "comment", "calc">>

rewriteSteps == <<"urlDir", "urlEdge", "sides", "cursor", "borderRadius", "shadow", "quant",
                  "lineWidth", "color", "bg", "bgXY", "linearGradient", "images", "transforms",
                  "origins",
                  "direction", "quarterTurned">>

\* The statements that stand for passes which are not modelled.
laterSteps == {"images", "origins", "quarterTurned"}

detokenizeStepsForward == <<"detokSingle", "detokClass", "detokComment", "detokCalc">>

detokenizeSteps == <<"detokCalc", "detokComment", "detokClass", "detokSingle">>

steps == tokenizeSteps \o rewriteSteps \o detokenizeSteps \o <<"done">>

\* The statement after step p.
StepAfter(p) == steps[1 + CHOOSE k \in DOMAIN steps : steps[k] = p]

InSeq(x, seq) == \E k \in DOMAIN seq : seq[k] = x

\* options.sourceDir || 'lr-tb' and options.targetDir || 'rl-tb'; an absent
\* property is the empty text.
sourceDirOf(options) == IF options.sourceDir # "" THEN options.sourceDir ELSE "lr-tb"

targetDirOf(options) == IF options.targetDir # "" THEN options.targetDir ELSE "rl-tb"

\* A comparison that never finds the orientations equal.
sameDirNever(sourceDir, targetDir) == FALSE

\* if ( sourceDir === targetDir )
sameDir(sourceDir, targetDir) == sourceDir = targetDir

\* A normalisation that reads the third argument behind an options object too.
NormaliseThird(a) ==
  IF a.kind = "null" THEN [kind |-> "null"]
  ELSE [kind |-> "object",
        sourceDir |-> IF a.kind = "object" THEN a.sourceDir ELSE "",
        targetDir |-> IF a.kind = "object" THEN a.targetDir ELSE "",
        transformDirInUrl |-> (a.kind \in {"object", "boolean"} /\ a.transformDirInUrl),
        transformEdgeInUrl |-> ((a.kind = "object" /\ a.transformEdgeInUrl) \/ a.third = "true")]

\* The options exports.transform hands to transform(): the object itself, null
\* included (typeof null is 'object'), or a new object with the two flags
\* that are booleans.
Normalise(a) ==
  IF a.kind = "null" THEN [kind |-> "null"]
  ELSE IF a.kind = "object"
  THEN [kind |-> "object", sourceDir |-> a.sourceDir, targetDir |-> a.targetDir,
        transformDirInUrl |-> a.transformDirInUrl, transformEdgeInUrl |-> a.transformEdgeInUrl]
  ELSE [kind |-> "object", sourceDir |-> "", targetDir |-> "",
        transformDirInUrl |-> (a.kind = "boolean" /\ a.transformDirInUrl),
        transformEdgeInUrl |-> (a.third = "true")]

\* exports.transform( css, options, transformEdgeInUrl )
ExportsTransform ==
  /\ pc = "idle"
  /\ norm' = Normalise(arg)
  /\ css' = input
  /\ pc' = "transform"
  /\ UNCHANGED <<suite, given, input, arg, desc, noFlipSingleTokenizer, noFlipClassTokenizer,
                 commentTokenizer, calcTokenizer, result, calls, memo>>

\* transform( css, options ) up to the tokenizers: reading options.sourceDir of
\* null throws a TypeError, equal orientations return css as it is, and
\* otherwise the descriptor is computed and the tokenizers are created.
Transform ==
  /\ pc = "transform"
  /\ IF norm.kind = "null"
     THEN /\ pc' = "thrown"
          /\ UNCHANGED <<desc, noFlipSingleTokenizer, noFlipClassTokenizer, commentTokenizer,
                         calcTokenizer, result>>
     ELSE IF sameDir(sourceDirOf(norm), targetDirOf(norm))
     THEN /\ pc' = "done"
          /\ result' = css
          /\ UNCHANGED <<desc, noFlipSingleTokenizer, noFlipClassTokenizer, commentTokenizer,
                         calcTokenizer>>
     ELSE /\ pc' = steps[1]
          /\ desc' = Descriptor(sourceDirOf(norm), targetDirOf(norm))
          /\ noFlipSingleTokenizer' = Tokenizer(noFlipSingleTokenizer)
          /\ noFlipClassTokenizer' = Tokenizer(noFlipClassTokenizer)
          /\ commentTokenizer' = Tokenizer(commentTokenizer)
          /\ calcTokenizer' = <<>>
          /\ UNCHANGED result
  /\ UNCHANGED <<suite, given, input, arg, norm, css, calls, memo>>

\* css.replace( '`', '%60' ): a text pattern replaces its first occurrence only.
escape(str) ==
  LET k == indexOf(str, BT, 1)
  IN IF k = 0 THEN str ELSE Sub(str, 1, k - 1) \o "%60" \o From(str, k + 1)

\* The tokenize chain, one tokenizer at a time from the innermost call outwards.
Tokenize ==
  /\ InSeq(pc, tokenizeSteps)
  /\ LET t == CASE pc = "escape" -> [out |-> escape(css), matches |-> <<>>]
                [] pc = "noFlipSingle" ->
                     tokenize(noFlipSingleRegExp, noFlipSingleToken, noFlipSingleTokenizer, css)
                [] pc = "noFlipClass" ->
                     tokenize(noFlipClassRegExp, noFlipClassToken, noFlipClassTokenizer, css)
                [] pc = "comment" ->
                     tokenize(commentRegExp, commentToken, commentTokenizer, css)
                [] pc = "calc" -> calcTokenize(calcTokenizer, css)
     IN /\ css' = t.out
        /\ noFlipSingleTokenizer' = IF pc = "noFlipSingle" THEN t.matches ELSE noFlipSingleTokenizer
        /\ noFlipClassTokenizer' = IF pc = "noFlipClass" THEN t.matches ELSE noFlipClassTokenizer
        /\ commentTokenizer' = IF pc = "comment" THEN t.matches ELSE commentTokenizer
        /\ calcTokenizer' = IF pc = "calc" THEN t.matches ELSE calcTokenizer
  /\ pc' = StepAfter(pc)
  /\ UNCHANGED <<suite, given, input, arg, norm, desc, result, calls, memo>>

\* Whether the statement of a rewrite step runs: the two url passes are behind
\* their options, the direction pass is behind dirFlipped and the last passes
\* are behind quarterTurned.
Runs(p) ==
  CASE p = "urlDir" -> norm.transformDirInUrl
    [] p = "urlEdge" -> norm.transformEdgeInUrl
    [] p = "direction" -> desc.dirFlipped
    [] p = "quarterTurned" -> desc.quarterTurned
    [] OTHER -> TRUE

\* One css.replace( pattern, callback ) of the chain of rewrites.  A statement
\* of laterSteps is taken only on a text that it leaves as it is.
Rewrite ==
  /\ InSeq(pc, rewriteSteps)
  /\ IF pc \in laterSteps
     THEN (Runs(pc) => Plain(css)) /\ css' = css
     ELSE css' = IF Runs(pc) THEN Replace(regexOf(pc), pc, desc, css) ELSE css
  /\ pc' = StepAfter(pc)
  /\ UNCHANGED <<suite, given, input, arg, norm, desc, noFlipSingleTokenizer,
                 noFlipClassTokenizer, commentTokenizer, calcTokenizer, result, calls, memo>>

\* The detokenize chain from the innermost call outwards, and return css.
Detokenize ==
  /\ InSeq(pc, detokenizeSteps)
  /\ IF pc = "detokCalc" /\ calcDetokenizeThrows(calcTokenizer, css)
     THEN pc' = "thrown" /\ UNCHANGED <<css, result>>
     ELSE /\ css' = CASE pc = "detokCalc" -> calcDetokenize(calcTokenizer, css)
                      [] pc = "detokComment" -> detokenize(commentToken, commentTokenizer, css)
                      [] pc = "detokClass" ->
                           detokenize(noFlipClassToken, noFlipClassTokenizer, css)
                      [] pc = "detokSingle" ->
                           detokenize(noFlipSingleToken, noFlipSingleTokenizer, css)
          /\ pc' = StepAfter(pc)
          /\ result' = IF StepAfter(pc) = "done" THEN css' ELSE result
  /\ UNCHANGED <<suite, given, input, arg, norm, desc, noFlipSingleTokenizer,
                 noFlipClassTokenizer, commentTokenizer, calcTokenizer, calls, memo>>

\* A further call of exports.transform on the same module instance, after the
\* last one has returned or thrown.  memo keeps what each call returned.
Again ==
  /\ pc \in {"done", "thrown"}
  /\ calls < MaxCalls
  /\ calls' = calls + 1
  /\ memo' = IF pc = "done" THEN Put(memo, <<input, arg>>, result) ELSE memo
  /\ given' \in Inputs(suite)
  /\ input' = Join(given')
  /\ arg' \in Args(suite)
  /\ pc' = "idle"
  /\ UNCHANGED <<suite, norm, desc, css, noFlipSingleTokenizer, noFlipClassTokenizer,
                 commentTokenizer, calcTokenizer, result>>

\* A second call of exports.transform with the stylesheet of the first and
\* arguments of any form.
OtherForm ==
  /\ pc = "done"
  /\ calls = 1
  /\ calls' = 2
  /\ memo' = Put(memo, <<input, arg>>, result)
  /\ arg' \in Args(suite)
  /\ pc' = "idle"
  /\ UNCHANGED <<suite, given, input, norm, desc, css, noFlipSingleTokenizer,
                 noFlipClassTokenizer, commentTokenizer, calcTokenizer, result>>

\* A second call of exports.transform, on what the first returned and with
\* the orientations of the first exchanged, or once more without options when
\* the first had none.
Back ==
  /\ pc = "done"
  /\ calls = 1
  /\ calls' = 2
  /\ memo' = Put(memo, <<input, arg>>, result)
  /\ given' = <<Part("text", result)>>
  /\ input' = result
  /\ arg' \in {Options(targetDirOf(norm), sourceDirOf(norm), FALSE, FALSE)} \cup
              (IF arg = Omitted THEN {Omitted} ELSE {})
  /\ pc' = "idle"
  /\ UNCHANGED <<suite, norm, desc, css, noFlipSingleTokenizer, noFlipClassTokenizer,
                 commentTokenizer, calcTokenizer, result>>

\* The state before the first call: the module is loaded, nothing has run.
InitOf(s) ==
  /\ suite = s
  /\ given \in Inputs(s)
  /\ input = Join(given)
  /\ arg \in Args(s)
  /\ pc = "idle"
  /\ norm = [kind |-> "none"]
  /\ desc = NoDescriptor
  /\ css = ""
  /\ noFlipSingleTokenizer = <<>>
  /\ noFlipClassTokenizer = <<>>
  /\ commentTokenizer = <<>>
  /\ calcTokenizer = <<>>
  /\ result = ""
  /\ calls = 1
  /\ memo = <<>>

Init == InitOf("calls")

\* One call of exports.transform, statement by statement.
Call == ExportsTransform \/ Transform \/ Tokenize \/ Rewrite \/ Detokenize

Next == Call \/ Again

Spec == Init /\ [][Next]_vars

SpecApi == InitOf("api") /\ [][Call]_vars

SpecProtect == InitOf("protect") /\ [][Call]_vars

SpecDirection == InitOf("direction") /\ [][Call]_vars

SpecSides == InitOf("sides") /\ [][Call]_vars

SpecCursor == InitOf("cursor") /\ [][Call]_vars

SpecValues == InitOf("values") /\ [][Call]_vars

SpecRadius == InitOf("radius") /\ [][Call]_vars

SpecUrl == InitOf("url") /\ [][Call]_vars

SpecForms == InitOf("forms") /\ [][Call \/ OtherForm]_vars

SpecRoundTrip == InitOf("roundtrip") /\ [][Call \/ Back]_vars

SpecSelectors == InitOf("selectors") /\ [][Call]_vars

SpecCorners == InitOf("corners") /\ [][Call]_vars

SpecShorthands == InitOf("shorthands") /\ [][Call]_vars

-----------------------------------------------------------------------------
\* A Tokenizer on its own

\* What tokenize leaves of part j of the text: the token with the number of
\* the comments up to the part, or the text of the part.
Piece(j) ==
  IF given[j].kind = "comment"
  THEN commentToken[1] \o ToString(Cardinality({i \in 1..j : given[i].kind = "comment"})) \o
       commentToken[2]
  ELSE given[j].text

RECURSIVE JoinPieces(_, _)
JoinPieces(order, k) ==
  IF k > Len(order) THEN "" ELSE Piece(order[k]) \o JoinPieces(order, k + 1)

\* commentTokenizer.tokenize( str )
TokenizerTokenize ==
  /\ pc = "idle"
  /\ LET t == tokenize(commentRegExp, commentToken, commentTokenizer, input)
     IN css' = t.out /\ commentTokenizer' = t.matches
  /\ pc' = "tokenized"
  /\ UNCHANGED <<suite, given, input, arg, norm, desc, noFlipSingleTokenizer,
                 noFlipClassTokenizer, calcTokenizer, result, calls, memo>>

\* Between tokenize and detokenize the parts of the text are put in another
\* order, some twice and some not at all, as the rewrites of transform() do
\* with the values they move; memo keeps the order.
Reorder ==
  /\ pc = "tokenized"
  /\ css = JoinPieces([j \in DOMAIN given |-> j], 1)
  /\ \E order \in [DOMAIN given -> DOMAIN given] :
       /\ memo' = order
       /\ css' = JoinPieces(order, 1)
  /\ pc' = "reordered"
  /\ UNCHANGED <<suite, given, input, arg, norm, desc, noFlipSingleTokenizer,
                 noFlipClassTokenizer, commentTokenizer, calcTokenizer, result, calls>>

\* commentTokenizer.detokenize( str )
TokenizerDetokenize ==
  /\ pc = "reordered"
  /\ result' = detokenize(commentToken, commentTokenizer, css)
  /\ pc' = "detokenized"
  /\ UNCHANGED <<suite, given, input, arg, norm, desc, css, noFlipSingleTokenizer,
                 noFlipClassTokenizer, commentTokenizer, calcTokenizer, calls, memo>>

SpecTokenizer ==
  InitOf("tokenizer") /\ [][TokenizerTokenize \/ Reorder \/ TokenizerDetokenize]_vars

SpecCalc == InitOf("calc") /\ [][Call]_vars

\* Calls on stylesheets with comments, noflip markers and calc( ) inside one
\* another.
SpecOrder == InitOf("order") /\ [][Call]_vars

\* The pass applied once more to once, what it made of the working text.
SecondPass(once) ==
  /\ css' = once
  /\ memo' = <<pc, css, once, Replace(regexOf(pc), pc, desc, once)>>

\* One pass of the chain applied to the working text and once more to what it
\* made of it; memo keeps the pass, the text it was given, its output and the
\* output of the second application, and the chain goes on from the first.
Twice ==
  /\ InSeq(pc, rewriteSteps)
  /\ pc \notin laterSteps
  /\ Runs(pc)
  /\ SecondPass(Replace(regexOf(pc), pc, desc, css))
  /\ pc' = StepAfter(pc)
  /\ UNCHANGED <<suite, given, input, arg, norm, desc, noFlipSingleTokenizer,
                 noFlipClassTokenizer, commentTokenizer, calcTokenizer, result, calls>>

\* Calls in which a pass is applied a second time to its own output.
SpecTwice == InitOf("twice") /\ [][Call \/ Twice]_vars

\* Calls on box-shadow, text-shadow and drop-shadow( ) under every pair.
SpecShadow == InitOf("shadow") /\ [][Call]_vars

\* Calls on linear gradients under every pair.
SpecGradient == InitOf("gradient") /\ [][Call]_vars

\* Calls on transform functions under every pair.
SpecTransform == InitOf("transform") /\ [][Call]_vars

-----------------------------------------------------------------------------
\* The loops of calcTokenizer.tokenize, statement by statement.  css is the
\* parameter css, calcTokenizer is matches, and memo keeps regex.lastIndex,
\* calcIndex, lastBracket and depth, the positions counted from 1.

\* A turn that looks for ) alone and stays in the loop when there is none.
CalcTurnNoBreak(s, lastBracket, depth) ==
  IF indexOf(s, ")", lastBracket) # 0
  THEN [lastBracket |-> indexOf(s, ")", lastBracket) + 1, depth |-> depth - 1, break |-> FALSE]
  ELSE [lastBracket |-> lastBracket, depth |-> depth, break |-> FALSE]

\* One turn of for ( ; depth > 0; ): the next lastBracket and depth, and
\* whether the loop is left by break.
CalcTurn(s, lastBracket, depth) ==
  LET nextOpen == indexOf(s, "(", lastBracket)
      nextClose == indexOf(s, ")", lastBracket)
  IN IF nextOpen # 0 /\ nextClose # 0 /\ nextOpen < nextClose
     THEN [lastBracket |-> nextOpen + 1, depth |-> depth + 1, break |-> FALSE]
     ELSE IF nextClose # 0
     THEN [lastBracket |-> nextClose + 1, depth |-> depth - 1, break |-> FALSE]
     ELSE [lastBracket |-> Len(s) + 1, depth |-> depth, break |-> TRUE]

\* Whether s has the text t at j, whatever the case of its letters.
TextAt(s, j, t) ==
  /\ j + Len(t) - 1 <= Len(s)
  /\ \A k \in 1..Len(t) : LowerCh(Ch(s, j + k - 1)) = Ch(t, k)

\* What (?:-moz-|-webkit-)?calc\( with the i flag matches at j, the empty text
\* when it does not match there.
CalcAt(s, j) ==
  IF TextAt(s, j, "-moz-calc(") THEN SubSeq(s, j, j + 9)
  ELSE IF TextAt(s, j, "-webkit-calc(") THEN SubSeq(s, j, j + 12)
  ELSE IF TextAt(s, j, "calc(") THEN SubSeq(s, j, j + 4)
  ELSE ""

\* regex.exec( css ) from lastIndex i: the index of the first match, 0 if
\* there is none.
CalcFind(s, i) ==
  IF \A j \in i..Len(s) : CalcAt(s, j) = "" THEN 0
  ELSE CHOOSE j \in i..Len(s) :
         CalcAt(s, j) # "" /\ \A k \in i..(j - 1) : CalcAt(s, k) = ""

\* lastCalc = regex.exec( css ): the loop ends without a match, and with one
\* the scan starts behind the calc( found.
CalcLoopExec ==
  /\ pc = "calcExec"
  /\ IF CalcFind(css, memo.lastIndex) = 0
     THEN pc' = "calcReturn" /\ memo' = memo
     ELSE /\ pc' = "calcScan"
          /\ memo' = [lastIndex |-> CalcFind(css, memo.lastIndex),
                      calcIndex |-> CalcFind(css, memo.lastIndex),
                      lastBracket |-> CalcFind(css, memo.lastIndex) +
                                      Len(CalcAt(css, CalcFind(css, memo.lastIndex))),
                      depth |-> 1]
  /\ UNCHANGED <<suite, given, input, arg, norm, desc, css, noFlipSingleTokenizer,
                 noFlipClassTokenizer, commentTokenizer, calcTokenizer, result, calls>>

CalcLoopScan ==
  /\ pc = "calcScan"
  /\ LET turn == CalcTurn(css, memo.lastBracket, memo.depth)
     IN /\ memo' = [memo EXCEPT !.lastBracket = turn.lastBracket, !.depth = turn.depth]
        /\ pc' = IF turn.break \/ turn.depth = 0 THEN "calcReplace" ELSE "calcScan"
  /\ UNCHANGED <<suite, given, input, arg, norm, desc, css, noFlipSingleTokenizer,
                 noFlipClassTokenizer, commentTokenizer, calcTokenizer, result, calls>>

\* css = css.substring( 0, calcIndex ) + token + css.substring( lastBracket )
CalcLoopReplace ==
  /\ pc = "calcReplace"
  /\ css' = Sub(css, 1, memo.calcIndex - 1) \o
            calcToken[1] \o ToString(Len(calcTokenizer)) \o calcToken[2] \o
            From(css, memo.lastBracket)
  /\ calcTokenizer' = Append(calcTokenizer, Sub(css, memo.calcIndex, memo.lastBracket - 1))
  /\ pc' = "calcExec"
  /\ UNCHANGED <<suite, given, input, arg, norm, desc, noFlipSingleTokenizer,
                 noFlipClassTokenizer, commentTokenizer, result, calls, memo>>

CalcLoop == CalcLoopExec \/ CalcLoopScan \/ CalcLoopReplace

InitCalcLoop ==
  /\ suite = "calcLoop"
  /\ given \in Inputs("calcLoop")
  /\ input = Join(given)
  /\ arg = Omitted
  /\ pc = "calcExec"
  /\ norm = [kind |-> "none"]
  /\ desc = NoDescriptor
  /\ css = input
  /\ noFlipSingleTokenizer = <<>>
  /\ noFlipClassTokenizer = <<>>
  /\ commentTokenizer = <<>>
  /\ calcTokenizer = <<>>
  /\ result = ""
  /\ calls = 1
  /\ memo = [lastIndex |-> 1, calcIndex |-> 0, lastBracket |-> 0, depth |-> 0]

\* The function runs on one thread from its first statement to its return:
\* a statement that can run does run.
SpecCalcLoop == InitCalcLoop /\ [][CalcLoop]_vars /\ WF_vars(CalcLoop)

-----------------------------------------------------------------------------
\* Properties of the calls

Contains(s, t) == indexOf(s, t, 1) # 0

EndsWith(s, t) == Len(s) >= Len(t) /\ From(s, Len(s) - Len(t) + 1) = t

RECURSIVE JoinTexts(_, _)
JoinTexts(texts, k) == IF k > Len(texts) THEN "" ELSE texts[k] \o JoinTexts(texts, k + 1)

\* The stylesheet given, with Rewritten( p ) in the place of each declaration p.
Expected(Rewritten(_)) ==
  JoinTexts([k \in DOMAIN given |->
               IF given[k].kind = "decl" THEN Rewritten(given[k]) ELSE given[k].text] \o <<>>, 1)

\* The words of a value, which single spaces separate.
Spaces(v) == {k \in 1..Len(v) : Ch(v, k) = " "}

Nth(S, n) == CHOOSE x \in S : Cardinality({y \in S : y < x}) = n - 1

WordCount(v) == Cardinality(Spaces(v)) + 1

Word(v, n) ==
  Sub(v, IF n = 1 THEN 1 ELSE Nth(Spaces(v), n - 1) + 1,
         IF n = WordCount(v) THEN Len(v) ELSE Nth(Spaces(v), n) - 1)

Words(words) ==
  JoinTexts([n \in DOMAIN words |-> (IF n > 1 THEN " " ELSE "") \o words[n]] \o <<>>, 1)

\* C1: a call whose source and target orientation are the same returns css as
\* it was given, and it has computed no descriptor, filled no token store and
\* rewritten nothing on the way.
C1_SameOrientation ==
  (pc = "done" /\ sourceDirOf(norm) = targetDirOf(norm)) =>
    /\ result = input
    /\ css = input
    /\ desc = NoDescriptor
    /\ noFlipSingleTokenizer = <<>> /\ noFlipClassTokenizer = <<>>
    /\ commentTokenizer = <<>> /\ calcTokenizer = <<>>

\* A call from tb-rl to tb-rl has returned a stylesheet with a backtick in it.
C1_Witness ==
  /\ pc = "done"
  /\ norm.sourceDir = "tb-rl" /\ norm.targetDir = "tb-rl"
  /\ Contains(input, BT)
  /\ result = input

\* C2: the text of a declaration or rule block that follows a noflip marker is
\* in the output as it was in the input, the marker included.
C2_NoFlipKept ==
  pc = "done" =>
    \A k \in DOMAIN given : given[k].kind = "noflip" => Contains(result, given[k].text)

\* C3: every comment of the input is in the output with the text it had.
C3_CommentsKept ==
  pc = "done" =>
    \A k \in DOMAIN given : given[k].kind = "comment" => Contains(result, given[k].text)

\* C4: no call of exports.transform throws, whatever the stylesheet and the
\* options are.
C4_NeverThrows == pc # "thrown"

\* C5: a call returns what the same call returned before, whatever calls were
\* made in between, and the token stores of a running call hold nothing but
\* texts of its own stylesheet.
C5_Stateless ==
  /\ (pc = "done" /\ <<input, arg>> \in DOMAIN memo) => result = memo[<<input, arg>>]
  /\ (InSeq(pc, steps) /\ pc # "done") =>
       \A store \in {noFlipSingleTokenizer, noFlipClassTokenizer, commentTokenizer,
                     calcTokenizer} :
         \A k \in DOMAIN store : Contains(escape(input), store[k])

\* The third call repeats a call made before, of a stylesheet with the text of
\* a comment token in it, after a call that had a comment to keep.
C5_Witness ==
  /\ pc = "done"
  /\ calls = 3
  /\ <<input, arg>> \in DOMAIN memo
  /\ Contains(input, "COMMENT1")
  /\ \E key \in DOMAIN memo : Contains(key[1], "/* left */")
  /\ Contains(result, "undefined")

\* The shorthands of the four-value notation.
FourNotationProps == {"margin", "padding", "border-width", "border-style", "border-color"}

Important(v) == Word(v, WordCount(v)) = "!important"

FourValues(p) ==
  LET v == p.value
      values == IF Important(v) THEN WordCount(v) - 1 ELSE WordCount(v)
  IN IF p.prop \in FourNotationProps /\ values = 4
     THEN p.prop \o ": " \o
          Words(<<Word(v, 1), Word(v, 4), Word(v, 3), Word(v, 2)>> \o
                (IF Important(v) THEN <<"!important">> ELSE <<>>)) \o p.term
     ELSE p.text

\* C6: with the default options a shorthand 'a b c d' of margin, padding,
\* border-width, border-style or border-color becomes 'a d c b', !important
\* staying behind it, and one of two or three values stays as it is.
C6_FourValues ==
  (pc = "done" /\ arg = Omitted /\
   \E k \in DOMAIN given : given[k].prop \in FourNotationProps) =>
    result = Expected(FourValues)

OtherDirection(dir) == IF dir = "ltr" THEN "rtl" ELSE IF dir = "rtl" THEN "ltr" ELSE dir

DirectionSwapped(p) ==
  p.prop \o ": " \o (IF desc.dirFlipped THEN OtherDirection(p.value) ELSE p.value) \o p.term

\* C7: the value of direction is the other of ltr and rtl when the pair of
\* orientations has dirFlipped, as the default pair has, and the value given
\* when it has not.
C7_Direction ==
  pc = "done" =>
    /\ result = Expected(DirectionSwapped)
    /\ arg = Omitted => result # input

\* A call that both flips the direction and turns the page has made ltr of rtl.
C7_Witness ==
  /\ pc = "done"
  /\ desc.dirFlipped /\ desc.quarterTurned
  /\ input = "direction: rtl"
  /\ result = "direction: ltr"

SideNames == {"top", "right", "bottom", "left"}

\* The side that the permutation of the sides puts in the place of side:
\* textChanges[ sides[ map[ i ] ] ] = sides[ i ].
SideImage(d, side) ==
  IF d.map = <<>> THEN side ELSE sides[CHOOSE i \in 0..3 : sides[d.map[i]] = side]

SideIn(text) == CHOOSE side \in SideNames : EndsWith(text, side)

OtherSide(side) ==
  IF side = "left" THEN "right" ELSE IF side = "right" THEN "left" ELSE side

SidesSwapped(p) ==
  IF p.prop \in {"float", "clear", "text-align", "text-align-last"}
  THEN p.prop \o ": " \o (IF desc.dirFlipped THEN OtherSide(p.value) ELSE p.value) \o p.term
  ELSE IF p.prop \in {"vertical-align", "text-orientation", "caption-side"}
  THEN p.text
  ELSE Sub(p.prop, 1, Len(p.prop) - Len(SideIn(p.prop))) \o
       SideImage(desc, SideIn(p.prop)) \o ": " \o p.value \o p.term

\* C8: float, clear, text-align and text-align-last have left and right
\* swapped when the pair has dirFlipped and keep their value when it has not,
\* never getting top or bottom; vertical-align, text-orientation: sideways-
\* and caption-side keep their side for every pair; the side in any other
\* property is the one the permutation of the sides gives.
C8_Sides == pc = "done" => result = Expected(SidesSwapped)

\* A call that flips the direction and turns the page has made right of the
\* left of a float.
C8_Witness ==
  /\ pc = "done"
  /\ desc.dirFlipped /\ desc.quarterTurned
  /\ input = "float: left;"
  /\ result = "float: right;"

Compass == {"n", "e", "s", "w", "ne", "nw", "se", "sw"}

CompassLetters == <<"n", "e", "s", "w">>

\* The letter that the permutation of the sides puts in the place of letter.
LetterImage(d, letter) ==
  IF d.map = <<>> THEN letter
  ELSE CompassLetters[1 + CHOOSE i \in 0..3 : CompassLetters[1 + d.map[i]] = letter]

\* The images of the letters of a compass point, north or south first.
CursorImage(d, point) ==
  LET images == {LetterImage(d, Ch(point, k)) : k \in 1..Len(point)}
      ns == images \cap {"n", "s"}
      ew == images \cap {"e", "w"}
  IN (IF ns = {} THEN "" ELSE CHOOSE letter \in ns : TRUE) \o
     (IF ew = {} THEN "" ELSE CHOOSE letter \in ew : TRUE)

CursorSwapped(p) ==
  p.prop \o ": " \o CursorImage(desc, Sub(p.value, 1, Len(p.value) - Len("-resize"))) \o
  "-resize" \o p.term

\* C9: each of the eight compass cursors becomes the cursor of the images of
\* its letters under the permutation of the sides, north or south first; that
\* is one of the eight again, no two of them become the same, and the default
\* options make ne-resize of nw-resize.
C9_Cursors ==
  pc = "done" =>
    /\ result = Expected(CursorSwapped)
    /\ \A point \in Compass : CursorImage(desc, point) \in Compass
    /\ \A p1 \in Compass : \A p2 \in Compass :
         CursorImage(desc, p1) = CursorImage(desc, p2) => p1 = p2
    /\ (arg = Omitted /\ input = "cursor: nw-resize;") => result = "cursor: ne-resize;"

\* A call that turns the page has made another cursor of ne-resize.
C9_Witness ==
  /\ pc = "done"
  /\ desc.quarterTurned
  /\ input = "cursor: ne-resize;"
  /\ result = "cursor: se-resize;"

BackgroundProps ==
  {"background", "background-position", "background-position-x", "background-position-y"}

\* 100 - p for the percentages of the stylesheets, with the decimals of p.
Complement(q) ==
  CASE q = "25%" -> "75%"
    [] q = "50%" -> "50%"
    [] q = "77%" -> "23%"
    [] q = "23%" -> "77%"
    [] q = "0.5%" -> "99.5%"
    [] q = "1.25%" -> "98.75%"
    [] q = "100.5%" -> "-0.5%"
    [] OTHER -> q

PositionFlipped(p) ==
  LET v == p.value
      first == IF Sub(Word(v, 1), 1, 4) = "url(" THEN 2 ELSE 1
      word(n) ==
        IF p.prop = "background-position-y"
        THEN (IF desc.flipY THEN Complement(Word(v, n)) ELSE Word(v, n))
        ELSE IF n = first /\ desc.flipX THEN Complement(Word(v, n))
        ELSE IF n = first + 1 /\ desc.flipY /\ p.prop # "background-position-x"
        THEN Complement(Word(v, n))
        ELSE Word(v, n)
  IN IF p.prop \in BackgroundProps
     THEN p.prop \o ": " \o Words([n \in 1..WordCount(v) |-> word(n)]) \o p.term
     ELSE p.text

\* C10: in a value of background, background-position or
\* background-position-x the horizontal percentage p% is (100 - p)% when the
\* pair has flipX and the vertical one when it has flipY, with the decimals of
\* p, and what is no percentage stays; background-position-y stays under the
\* default options.
C10_Percentages ==
  (pc = "done" /\ ~desc.quarterTurned /\
   \E k \in DOMAIN given : given[k].prop \in BackgroundProps) =>
    result = Expected(PositionFlipped)

\* The values of a shorthand: its words up to a slash or after it, !important
\* left out.  part 1 is what stands before the slash, part 2 what stands after.
SlashAt(v) ==
  IF \E n \in 1..WordCount(v) : Word(v, n) = "/"
  THEN CHOOSE n \in 1..WordCount(v) : Word(v, n) = "/" ELSE 0

ValuesOf(v, part) ==
  LET last == IF Important(v) THEN WordCount(v) - 1 ELSE WordCount(v)
      from == IF part = 1 THEN 1 ELSE SlashAt(v) + 1
      to == IF part = 1 /\ SlashAt(v) # 0 THEN SlashAt(v) - 1 ELSE last
  IN IF part = 2 /\ SlashAt(v) = 0 THEN <<>>
     ELSE [n \in 1..(to - from + 1) |-> Word(v, from + n - 1)] \o <<>>

\* What a shorthand of one to four values gives the places 0 to 3 (the sides
\* top, right, bottom, left or the corners from top left on, clockwise).
Expansion(values) ==
  [i \in 0..3 |->
     CASE Len(values) = 1 -> values[1]
       [] Len(values) = 2 -> values[1 + (i % 2)]
       [] Len(values) = 3 -> values[IF i = 3 THEN 2 ELSE i + 1]
       [] OTHER -> values[i + 1]]

\* The value of the only declaration of a stylesheet, "" when the text is not
\* the property, a colon, a value and the terminator.
ValueIn(text, p) ==
  IF Sub(text, 1, Len(p.prop) + 2) = p.prop \o ": " /\ EndsWith(text, p.term)
  THEN Sub(text, Len(p.prop) + 3, Len(text) - Len(p.term)) ELSE ""

\* The permutation a descriptor has under name, the identity when the call has
\* computed none.
MapOf(m) == IF m = <<>> THEN [i \in 0..3 |-> i] ELSE m

KeywordAt(text, i, words) ==
  {w \in words : /\ Sub(text, i, i + Len(w) - 1) = w
                 /\ Ch(text, i - 1) \notin Letter
                 /\ Ch(text, i + Len(w)) \notin Letter}

\* The text of a url from position i on, with the directions rewritten when
\* dirInUrl and the sides when edgeInUrl, and nothing else.
RECURSIVE UrlImage(_, _, _, _)
UrlImage(text, i, dirInUrl, edgeInUrl) ==
  LET dirsAt == IF dirInUrl THEN KeywordAt(text, i, {"ltr", "rtl"}) ELSE {}
      sidesAt == IF edgeInUrl THEN KeywordAt(text, i, SideNames) ELSE {}
      word == CHOOSE w \in dirsAt \cup sidesAt : TRUE
  IN IF i > Len(text) THEN ""
     ELSE IF dirsAt # {}
     THEN (IF desc.dirFlipped THEN OtherDirection(word) ELSE word) \o
          UrlImage(text, i + Len(word), dirInUrl, edgeInUrl)
     ELSE IF sidesAt # {}
     THEN SideImage(desc, word) \o UrlImage(text, i + Len(word), dirInUrl, edgeInUrl)
     ELSE Ch(text, i) \o UrlImage(text, i + 1, dirInUrl, edgeInUrl)

UrlExpected(p) ==
  IF p.kind = "url" THEN UrlImage(p.text, 1, norm.transformDirInUrl, norm.transformEdgeInUrl)
  ELSE IF p.kind # "decl" THEN p.text
  ELSE IF p.prop = "direction" THEN DirectionSwapped(p)
  ELSE SidesSwapped(p)

\* C12: the text of a url( ... ) is in the output as it was given when
\* transformDirInUrl and transformEdgeInUrl are both false, the declarations
\* around it being rewritten; in a url a direction is rewritten only when
\* transformDirInUrl and a side only when transformEdgeInUrl, and only where
\* no letter stands next to it.
C12_Urls ==
  pc = "done" =>
    result = JoinTexts([k \in DOMAIN given |-> UrlExpected(given[k])] \o <<>>, 1)

\* What the arguments of a call ask for: the orientations and the two flags.
\* The positional form gives the flags as booleans, the options form in the
\* object, whose third argument does not count.
Asked(a) ==
  [sourceDir |-> IF a.kind = "object" /\ a.sourceDir # "" THEN a.sourceDir ELSE "lr-tb",
   targetDir |-> IF a.kind = "object" /\ a.targetDir # "" THEN a.targetDir ELSE "rl-tb",
   dirInUrl |-> a.kind \in {"object", "boolean"} /\ a.transformDirInUrl,
   edgeInUrl |-> IF a.kind = "object" THEN a.transformEdgeInUrl ELSE a.third = "true"]

\* C13: two calls on the same stylesheet return the same text when their
\* arguments ask for the same: transform(css, b1, b2) and transform(css,
\* {transformDirInUrl: b1, transformEdgeInUrl: b2}), transform(css) and
\* transform(css, {}) and transform(css, {sourceDir: 'lr-tb', targetDir:
\* 'rl-tb'}), and an options object with and without a third argument.
C13_Forms ==
  (pc = "done" /\ calls = 2) =>
    \A key \in DOMAIN memo :
      (key[1] = input /\ Asked(key[2]) = Asked(arg)) => result = memo[key]

\* The options form has returned what the positional form with both flags
\* returned before, a url rewritten.
C13_Witness ==
  /\ pc = "done" /\ calls = 2
  /\ arg = Options("", "", TRUE, TRUE)
  /\ \E key \in DOMAIN memo :
       /\ key[2].kind = "boolean" /\ key[2].transformDirInUrl /\ key[2].third = "true"
       /\ key[1] = input
       /\ memo[key] = result
  /\ Contains(result, "ltr_left")

\* The stylesheet and the arguments of the first of two calls.
First == CHOOSE key \in DOMAIN memo : TRUE

LonePercentage(str) == Contains(str, "background-position: 30%")

BarePoint(str) == Contains(str, " .")

C15_Selectors ==
  pc = "done" =>
    /\ \A k \in DOMAIN given :
         given[k].kind = "selector" => Sub(result, 1, Len(given[k].text)) = given[k].text
    /\ result = Expected(SidesSwapped)

\* Every key of 0..3 is written, and no value is written under two keys.
Bijection(m) == DOMAIN m = 0..3 /\ {m[i] : i \in 0..3} = 0..3

\* C16: for every pair of orientations the map of the sides and the map of
\* the corners that the loop builds are bijections of 0..3; for a pair of
\* equal orientations, where transform() returns before the loop, the loop is
\* run on the pair here.
C16_Bijections ==
  (norm.kind = "object" /\ pc \notin {"idle", "transform"}) =>
    LET d == IF desc = NoDescriptor
             THEN Descriptor(sourceDirOf(norm), targetDirOf(norm)) ELSE desc
    IN Bijection(d.map) /\ Bijection(d.cornersMap)

\* A call for a pair that turns the page and reflects it has built maps that
\* move every side and every corner.
C16_Witness ==
  /\ pc = "done"
  /\ desc.quarterTurned /\ desc.reflected
  /\ \A i \in 0..3 : desc.map[i] # i
  /\ \E i \in 0..3 : desc.cornersMap[i] # desc.map[i]

\* Whether the permutation of the sides takes the diagonal from the corner of
\* top and right to the corner of bottom and left to the other diagonal: top
\* and right become the sides of the corner of top and left or of the corner
\* of right and bottom.
DiagonalsSwapped(m) == {m[0], m[1]} \in {{0, 3}, {1, 2}}

OtherDiagonal(value) ==
  IF value = "nesw-resize" THEN "nwse-resize" ELSE "nesw-resize"

DiagonalSwapped(p) ==
  p.prop \o ": " \o
  (IF desc.map # <<>> /\ DiagonalsSwapped(desc.map) THEN OtherDiagonal(p.value)
   ELSE p.value) \o p.term

\* C17: cornersFlipped holds exactly for the pairs whose permutation of the
\* sides exchanges the two diagonals, and exactly for them nesw-resize and
\* nwse-resize are exchanged; a half turn and a reflection in a diagonal keep
\* them, whatever the source orientation is.
C17_CornersFlipped ==
  pc = "done" =>
    /\ desc.map # <<>> => desc.cornersFlipped = DiagonalsSwapped(desc.map)
    /\ result = Expected(DiagonalSwapped)

\* C18: a shorthand of two, three or four values for the sides comes out as
\* a list whose expansion gives side i what the expansion of the input gave
\* side map[i]; three values come out as four exactly when quarterTurned, and
\* the number of values is kept otherwise.
C18_Shorthands ==
  pc = "done" =>
    LET p == given[1]
        from == ValuesOf(p.value, 1)
        to == ValuesOf(ValueIn(result, p), 1)
    IN /\ to # <<>>
       /\ \A i \in 0..3 : Expansion(to)[i] = Expansion(from)[MapOf(desc.map)[i]]
       /\ Len(to) = IF Len(from) = 3 /\ desc.quarterTurned THEN 4 ELSE Len(from)
       /\ Important(ValueIn(result, p)) = Important(p.value)

\* A call that turns the page has made four values of three.
C18_Witness ==
  /\ pc = "done"
  /\ desc.quarterTurned
  /\ input = "padding: 1px 2px 3px;"
  /\ WordCount(ValueIn(result, given[1])) = 4

\* The comments of the text given, in their order.
CommentsGiven ==
  LET at == {j \in DOMAIN given : given[j].kind = "comment"}
  IN [n \in 1..Cardinality(at) |-> given[Nth(at, n)].text]

\* C19: tokenize puts in the place of the n-th match the token with the index
\* n and records the match under n, and detokenize puts in the place of each
\* token the match recorded under its index, also after the tokens were put
\* in another order, doubled or removed; in the order given that is the text
\* given.
C19_Tokenizer ==
  /\ pc = "tokenized" =>
       /\ css = JoinPieces([j \in DOMAIN given |-> j], 1)
       /\ commentTokenizer = CommentsGiven
  /\ pc = "detokenized" =>
       /\ result = JoinTexts([k \in DOMAIN memo |-> given[memo[k]].text] \o <<>>, 1)
       /\ memo = [j \in DOMAIN given |-> j] => result = input

\* The three comments of a text have come back with the third first, the
\* first twice and the second not at all.
C19_Witness ==
  /\ pc = "detokenized"
  /\ Len(commentTokenizer) = 3
  /\ memo = <<4, 1, 3, 1>>
  /\ result = "/* 3 *//*1*/ /*1*/"

\* C20: after the escape step, before the first tokenizer runs, the working
\* text has no backtick in it.
C20_BackticksEscaped == pc = "noFlipSingle" => ~Contains(css, BT)

\* Whether the parentheses of text from position i on close, depth of them
\* being open.
RECURSIVE Closes(_, _, _)
Closes(text, i, depth) ==
  IF depth = 0 THEN TRUE
  ELSE IF i > Len(text) THEN FALSE
  ELSE Closes(text, i + 1,
              IF Ch(text, i) = "(" THEN depth + 1
              ELSE IF Ch(text, i) = ")" THEN depth - 1 ELSE depth)

\* The stylesheet has a calc( that no parenthesis closes.
Unclosed(str) ==
  \E k \in 1..Len(str) : Sub(str, k, k + 4) = "calc(" /\ ~Closes(str, k + 5, 1)

\* C21: of a stylesheet with a calc( that is not closed the text calc( stays
\* where it was, and what follows it is rewritten as it is without the calc(:
\* the declarations after it have their sides swapped.
C21_UnclosedCalc ==
  (pc = "done" /\ Unclosed(input)) => result = Expected(SidesSwapped)

\* C22: a call on an input whose calc( expressions are all balanced returns
\* each of them as it was given; a hyphen that stood in front of calc( in
\* the input is returned with it, and the quantities inside keep their signs.
C22_CalcRestored == (pc = "done" /\ Contains(input, "calc(") /\ ~Unclosed(input)) => result = Expected(SidesSwapped)

\* The tokenize steps and the detokenize steps in the order the claim gives.
TokenizeOrder == <<"noFlipSingle", "noFlipClass", "comment", "calc">>
DetokenizeOrder == <<"detokCalc", "detokComment", "detokClass", "detokSingle">>

\* What the four tokenizers hold.
Stores == <<noFlipSingleTokenizer, noFlipClassTokenizer, commentTokenizer, calcTokenizer>>

\* C23: the steps of a call follow one another as noFlipSingle, noFlipClass,
\* comment, calc, then the rewrite passes, then detokenize calc, comment,
\* noFlipClass, noFlipSingle; a rewrite pass works on a text with no comment,
\* no noflip marker and no calc( in it and leaves what the tokenizers hold as
\* it is; and the text returned has no placeholder left in it, every given
\* comment, noflip block and calc( ) being there as given and the rest
\* rewritten.
C23_Order ==
  [][ /\ \A k \in 1..3 : pc = TokenizeOrder[k] => pc' = TokenizeOrder[k + 1]
      /\ pc = "calc" => pc' = Head(rewriteSteps)
      /\ InSeq(pc, rewriteSteps) =>
           /\ InSeq(pc', rewriteSteps) \/ pc' = "detokCalc"
           /\ ~Contains(css, "/*") /\ ~Contains(css, "calc(") /\ ~Contains(css, "@noflip")
           /\ Stores' = Stores
      /\ \A k \in 1..3 : pc = DetokenizeOrder[k] => pc' = DetokenizeOrder[k + 1]
      /\ pc = "detokSingle" => pc' = "done" /\ ~Contains(result', BT) /\ result' = Expected(SidesSwapped)
    ]_vars

C23_Witness ==
  /\ pc = "done"
  /\ input = "/* calc(1px */ margin-left: calc(2px /* ) */ + 1px); /* @noflip */ left: 0; right: 0;"
  /\ result = "/* calc(1px */ margin-right: calc(2px /* ) */ + 1px); /* @noflip */ left: 0; left: 0;"
  /\ Len(commentTokenizer) = 2 /\ Len(calcTokenizer) = 1 /\ Len(noFlipSingleTokenizer) = 1

IsZero(v) == \A k \in 1..Len(v) : Ch(v, k) \notin Chars("123456789")

Negated(v) ==
  IF IsZero(v) THEN v
  ELSE IF Ch(v, 1) = "-" THEN From(v, 2)
  ELSE IF Ch(v, 1) = "+" THEN "-" \o From(v, 2) ELSE "-" \o v

\* f of the claim: what the side i of the target gets of the offsets X and Y.
OffsetAlong(i, X, Y) ==
  CASE i = 0 -> Negated(Y) [] i = 1 -> X [] i = 2 -> Y [] i = 3 -> Negated(X)

ShadowTurned(p) ==
  OffsetAlong(MapOf(desc.map)[1], p.prop, p.value) \o " " \o
  OffsetAlong(MapOf(desc.map)[2], p.prop, p.value)

ShadowMirrored(p) == Negated(p.prop) \o " " \o p.value

\* C25: under every pair the two offsets X Y of each shadow come back as
\* f(map[1]) f(map[2]) with f(0) = -Y, f(1) = X, f(2) = Y, f(3) = -X and the
\* rest of the shadow as given; one of the two is taken from X and the other
\* from Y; a zero keeps its spelling; and without options X changes its sign
\* and Y stays.
C25_Shadows ==
  pc = "done" =>
    /\ result = Expected(ShadowTurned)
    /\ MapOf(desc.map)[1] % 2 # MapOf(desc.map)[2] % 2
    /\ arg = Omitted => result = Expected(ShadowMirrored)

\* A quarter turn has put the negated Y of two shadows in the place of X.
C25_Witness ==
  /\ pc = "done"
  /\ input = "text-shadow: -1px +2px blue, 3px -4px green;"
  /\ norm.sourceDir = "lr-tb" /\ norm.targetDir = "tb-rl"
  /\ result = "text-shadow: -2px -1px blue, 4px 3px green;"

\* The declaration among the parts given.
TheDecl == given[CHOOSE k \in DOMAIN given : given[k].kind = "decl"]

\* The angle the claim gives a gradient, in hundredths: a is the angle given,
\* 180deg when none is.
AngleWanted ==
  LET max == angleMaxes[IF TheDecl.value = "" THEN "deg" ELSE TheDecl.value]
      a == IF TheDecl.prop = "" THEN 18000 ELSE parseFloat(TheDecl.prop)
  IN (max + (IF desc.reflected THEN 1 ELSE 0 - 1) * ((desc.map[0] * max) \div 4 - a)) % max

\* C26: a call that rewrites returns the gradient with the angle
\* (max + s * (map[0] * max / 4 - a)) mod max, a number from 0 up to max
\* without a sign, in the unit given (deg when none is), the colours as given;
\* an angle 0 with a unit leaves the text as it is, and a gradient without an
\* angle stays as it is when the angle computed is 180deg.
C26_Angles ==
  (pc = "done" /\ desc # NoDescriptor) =>
    IF TheDecl.prop # "" /\ parseFloat(TheDecl.prop) = 0 /\ TheDecl.value # "" THEN result = input
    ELSE IF TheDecl.prop = "" /\ AngleWanted = 18000 THEN result = input
    ELSE \E n \in 1..6 :
           LET t == Sub(result, Len(given[1].text) + 1, Len(given[1].text) + n)
           IN /\ \A k \in 1..n : Ch(t, k) \in Digit \cup {"."}
              /\ parseFloat(t) = AngleWanted
              /\ \E unit \in {TheDecl.value, "deg"} :
                   result = given[1].text \o t \o unit \o
                            (IF TheDecl.term = "" THEN ", " ELSE TheDecl.term) \o given[3].text

Flags(d) == <<d.dirFlipped, d.quarterTurned, d.cornersFlipped, d.reflected>>

\* C27: the descriptor of the call from B to A has the maps of the sides and
\* of the corners that undo those of the descriptor from A to B and has its
\* four flags; for B = A, where transform() returns before it computes them,
\* the formulas give maps that leave every side and corner in place and four
\* flags that are false.
C27_Inverse ==
  (calls = 2 /\ norm.kind = "object" /\ pc \notin {"idle", "transform"}) =>
    LET ba == IF desc = NoDescriptor
              THEN Descriptor(sourceDirOf(norm), targetDirOf(norm)) ELSE desc
        ab == Descriptor(targetDirOf(norm), sourceDirOf(norm))
    IN /\ \A i \in 0..3 : ba.map[ab.map[i]] = i /\ ba.cornersMap[ab.cornersMap[i]] = i
       /\ Flags(ba) = Flags(ab)
       /\ sourceDirOf(norm) = targetDirOf(norm) =>
            /\ \A i \in 0..3 : ba.map[i] = i /\ ba.cornersMap[i] = i
            /\ Flags(ba) = <<FALSE, FALSE, FALSE, FALSE>>

\* The call back from a quarter turn has maps that are not those of the call
\* there.
C27_Witness ==
  /\ calls = 2 /\ pc = "done"
  /\ desc.quarterTurned /\ ~desc.reflected
  /\ desc.map # Descriptor(targetDirOf(norm), sourceDirOf(norm)).map
  /\ \A i \in 0..3 : desc.map[Descriptor(targetDirOf(norm), sourceDirOf(norm)).map[i]] = i

\* The places of text, from i on, where a calc( stands.
CalcPlaces(text, i) == {k \in i..Len(text) : toLowerCase(Sub(text, k, k + 4)) = "calc("}

\* C28: the function returns on every text; each turn of the scan moves
\* lastBracket on or, finding no ) any more, leaves the scan with lastBracket
\* at the end of the text; each replacement leaves fewer calc( from the place of the
\* search on than there were, none of them at that place; and what the loops
\* return is the text and the matches of calcTokenizer.tokenize.
C28_Terminates ==
  /\ <>(pc = "calcReturn")
  /\ [][ /\ pc = "calcScan" =>
              \/ memo'.lastBracket > memo.lastBracket
              \/ /\ pc' = "calcReplace" /\ memo'.lastBracket = Len(css) + 1
                 /\ indexOf(css, ")", memo.lastBracket) = 0
         /\ pc = "calcReplace" =>
              /\ Cardinality(CalcPlaces(css', memo.lastIndex)) <
                 Cardinality(CalcPlaces(css, memo.lastIndex))
              /\ CalcExec(css', memo.lastIndex) # <<>> =>
                   CalcExec(css', memo.lastIndex)[1].index > memo.calcIndex
         /\ pc' = "calcReturn" =>
              [out |-> css', matches |-> calcTokenizer'] = calcTokenize(<<>>, input)
       ]_vars

\* The loops have returned from a text with an expression inside another and
\* an unclosed calc( behind them.
C28_Witness ==
  /\ pc = "calcReturn"
  /\ input = "-moz-calc((1px + 2px) * 3) calc(calc("
  /\ css = BT \o "CALC0" \o BT \o " " \o BT \o "CALC1" \o BT
  /\ calcTokenizer = <<"-moz-calc((1px + 2px) * 3)", "calc(calc(">>

-----------------------------------------------------------------------------
\* Transform functions

\* The function of the name given among the parts of the stylesheet.
TheFunc(fnName) ==
  given[CHOOSE k \in DOMAIN given :
          given[k].kind = "decl" /\ given[k].term = "(" /\ toLowerCase(given[k].prop) = fnName]

HasFunc(fnName) ==
  \E k \in DOMAIN given :
    given[k].kind = "decl" /\ given[k].term = "(" /\ toLowerCase(given[k].prop) = fnName

\* The function p as the stylesheet returned has it: from its name up to the
\* parenthesis that closes it.
FuncIn(str, p) ==
  LET at == indexOf(str, p.prop \o "(", 1)
  IN IF at = 0 THEN "" ELSE Sub(str, at, indexOf(str, ")", at))

\* The factors of a scale( ) along X and along Y, a missing second argument
\* being the first.
FactorX(vals) == vals[1]

FactorY(vals) == IF Len(vals) >= 2 THEN vals[2] ELSE vals[1]

\* The ways to write scale( ) with the factors x and y.
Scales(fnName, x, y) ==
  {fnName \o "(" \o x \o ", " \o y \o ")"} \cup
  (IF x = y THEN {fnName \o "(" \o x \o ")"} ELSE {})

\* C30: under a quarter turn the factor of scale( ) along X comes back as the
\* factor along Y and the factor along Y as the factor along X, a missing
\* second argument being the first, so that scale(s) still scales both axes
\* by s; without a quarter turn scale( ) comes back as given.
C30_Scale ==
  (pc = "done" /\ HasFunc("scale")) =>
    LET p == TheFunc("scale")
    IN IF desc.quarterTurned
       THEN FuncIn(result, p) \in Scales(p.prop, FactorY(p.value), FactorX(p.value))
       ELSE FuncIn(result, p) = p.text

\* The axis whose offset the side i of the target gets, and whether it gets
\* it with the other sign: f(0) = -Y, f(1) = X, f(2) = Y, f(3) = -X.
AxisAlong(i) == IF i \in {1, 3} THEN "X" ELSE "Y"

Flipped(i) == i \in {0, 3}

\* The entry of the linear part a b c d in the row and the column given:
\* a and c make the row of X, b and d the row of Y.
Entry(vals, row, col) ==
  CASE row = "X" /\ col = "X" -> vals[1]
    [] row = "Y" /\ col = "X" -> vals[2]
    [] row = "X" /\ col = "Y" -> vals[3]
    [] row = "Y" /\ col = "Y" -> vals[4]

\* The entry in the row of side i and the column of side j of the conjugate
\* of the linear part by the exchange and the flips of the offsets.
Conjugate(vals, i, j) ==
  LET e == Entry(vals, AxisAlong(i), AxisAlong(j))
  IN IF Flipped(i) # Flipped(j) THEN Negated(e) ELSE e

MatrixTurned(p) ==
  LET x == MapOf(desc.map)[1]
      y == MapOf(desc.map)[2]
  IN p.prop \o "(" \o
     List(<<Conjugate(p.value, x, x), Conjugate(p.value, y, x), Conjugate(p.value, x, y),
            Conjugate(p.value, y, y), OffsetAlong(x, p.value[5], p.value[6]),
            OffsetAlong(y, p.value[5], p.value[6])>>, 1) \o ")"

TranslateTurned(p) ==
  p.prop \o "(" \o
  List(<<OffsetAlong(MapOf(desc.map)[1], p.value[1], p.value[2]),
         OffsetAlong(MapOf(desc.map)[2], p.value[1], p.value[2])>>, 1) \o ")"

Reoriented(p) ==
  IF p.term # "(" THEN ShadowTurned(p)
  ELSE IF toLowerCase(p.prop) = "matrix" THEN MatrixTurned(p)
  ELSE TranslateTurned(p)

\* C29: under every pair matrix(a, b, c, d, tx, ty) comes back with tx and ty
\* exchanged and negated as the two arguments of translate( ) and the two
\* offsets of a shadow are, f(map[1]) f(map[2]), and with a, b, c and d as
\* the conjugate of the linear part by that exchange and those flips: the
\* entry in row i and column j is the entry of the axes these get, negated
\* when one of the two is flipped and the other is not.
C29_Matrix ==
  (pc = "done" /\ HasFunc("matrix")) => result = Expected(Reoriented)

\* A quarter turn has rewritten the offsets of a shadow, the arguments of
\* translate( ) and the six values of matrix( ).
C29_Witness ==
  /\ pc = "done"
  /\ norm.sourceDir = "lr-tb" /\ norm.targetDir = "tb-rl"
  /\ result = "box-shadow: 6px 5px red; transform: translate(6px, 5px); " \o
              "transform: matrix(4, -3, -2, 1, 6, 5);"
====
